---- MODULE Spec2Model ----
(***************************************************************************)
(* Model of the book-record pipeline of smart-books-ai.                    *)
(*                                                                         *)
(* book-processing/build_base_dataset.py: the key normalizers, the         *)
(* identity resolver generate_book_key, and main() as a sequence of steps  *)
(* (load, process Goodreads, process Kaggle, backfill loop, combine, the   *)
(* two deduplication passes, save).                                        *)
(*                                                                         *)
(* Strings are sequences of one-character strings, so that the regular     *)
(* expressions of the normalizers are modelled by what they match.         *)
(* None / NaN of a string-valued cell is the sentinel None, a sequence     *)
(* holding one multi-character element, which no real string equals.       *)
(***************************************************************************)
EXTENDS Integers, Sequences, FiniteSets, TLC

(***************************************************************************)
(* Characters and strings                                                  *)
(***************************************************************************)
None == <<"<None>">>

\* a missing number (None or NaN in a numeric column)
NumNaN == 0 - 1

UPPER == <<"A","B","C","D","E","F","G","H","I","J","K","L","M",
           "N","O","P","Q","R","S","T","U","V","W","X","Y","Z">>
LOWER == <<"a","b","c","d","e","f","g","h","i","j","k","l","m",
           "n","o","p","q","r","s","t","u","v","w","x","y","z">>
DIGITS == {"0","1","2","3","4","5","6","7","8","9"}

\* the characters the regular expressions' \s matches
WS == {" ", "\t", "\n"}

IsUpper(c) == \E i \in 1..26 : UPPER[i] = c

\* str.lower() on one character
LowerChar(c) == IF IsUpper(c) THEN LOWER[CHOOSE i \in 1..26 : UPPER[i] = c] ELSE c

\* str.upper() on one character
UpperChar(c) ==
    IF \E i \in 1..26 : LOWER[i] = c THEN UPPER[CHOOSE i \in 1..26 : LOWER[i] = c] ELSE c

\* str.lower()
Lower(s) == [i \in 1..Len(s) |-> LowerChar(s[i])]

\* str.upper()
Upper(s) == [i \in 1..Len(s) |-> UpperChar(s[i])]

\* s[a..b] (1-based, inclusive), empty when a > b
Sub(s, a, b) == IF a > b THEN <<>> ELSE SubSeq(s, a, b)

\* the characters of s that are not in the set drop, in order
RECURSIVE Without(_, _)
Without(s, drop) ==
    IF s = <<>> THEN <<>>
    ELSE IF Head(s) \in drop THEN Without(Tail(s), drop)
         ELSE <<Head(s)>> \o Without(Tail(s), drop)

\* the characters of s that are in the set keep, in order
RECURSIVE Only(_, _)
Only(s, keep) ==
    IF s = <<>> THEN <<>>
    ELSE IF Head(s) \in keep THEN <<Head(s)>> \o Only(Tail(s), keep)
         ELSE Only(Tail(s), keep)

\* str.strip(): drop leading and trailing whitespace
Strip(s) ==
    LET idx == {i \in 1..Len(s) : s[i] \notin WS}
    IN  IF idx = {} THEN <<>>
        ELSE Sub(s, CHOOSE i \in idx : \A j \in idx : i <= j,
                    CHOOSE i \in idx : \A j \in idx : i >= j)

\* first index >= p of s that is not whitespace (Len(s)+1 when there is none):
\* where a greedy \s* starting at p stops
SkipWS(s, p) ==
    LET idx == {i \in p..Len(s) : s[i] \notin WS}
    IN  IF idx = {} THEN Len(s) + 1 ELSE CHOOSE i \in idx : \A j \in idx : i <= j

\* re.sub(r'\s+', ' ', s): every run of whitespace becomes one space
CollapseFrom(s, p) ==
    LET kept == SelectSeq([i \in 1..Len(s) |-> i],
                          LAMBDA i : /\ i >= p
                                     /\ (s[i] \notin WS \/ i = p \/ s[i - 1] \notin WS))
    IN  [k \in 1..Len(kept) |-> IF s[kept[k]] \in WS THEN " " ELSE s[kept[k]]]

CollapseWS(s) == CollapseFrom(s, 1)

\* n times the character c
Rep(c, n) == [k \in 1..n |-> c]

\* ',' in s
HasChar(s, c) == \E i \in 1..Len(s) : s[i] = c

\* index of the first occurrence of character c in s (precondition: HasChar)
FirstChar(s, c) == CHOOSE i \in 1..Len(s) : s[i] = c /\ \A j \in 1..(i-1) : s[j] # c

\* s.split(c, 1): the text before and after the first c
SplitOnce(s, c) ==
    LET i == FirstChar(s, c) IN <<Sub(s, 1, i - 1), Sub(s, i + 1, Len(s))>>

\* len(s.split()): the number of whitespace-separated tokens of s
TokenCount(s) ==
    Cardinality({i \in 1..Len(s) : s[i] \notin WS /\ (i = 1 \/ s[i-1] \in WS)})

\* the literal lit occurs in s at position p
LitAt(s, p, lit) ==
    /\ p + Len(lit) - 1 <= Len(s)
    /\ \A k \in 1..Len(lit) : s[p + k - 1] = lit[k]

(***************************************************************************)
(* Key Normalizer: build_base_dataset.py                                   *)
(***************************************************************************)
\* mutant: the second filter keeps 0-9 and x only, not X
clean_isbn_lower_x(val) ==
    IF val = None THEN None
    ELSE LET c1 == Strip(Without(val, {"=", "\""} \cup WS \cup {"-"}))
             c2 == Upper(Only(c1, DIGITS \cup {"x"}))
         IN  IF Len(c2) < 10 THEN None ELSE c2

\* clean_isbn: drop = " whitespace and -, keep only 0-9 X x, uppercase;
\* fewer than 10 characters left, or a missing value, is None
clean_isbn(val) ==
    IF val = None THEN None
    ELSE LET c1 == Strip(Without(val, {"=", "\""} \cup WS \cup {"-"}))
             c2 == Upper(Only(c1, DIGITS \cup {"X", "x"}))
         IN  IF Len(c2) < 10 THEN None ELSE c2

\* normalize_text: lowercase, strip, collapse whitespace; '' for a missing value
normalize_text(text) ==
    IF text = None THEN <<>> ELSE CollapseWS(Strip(Lower(text)))

\* from p to the end of s:  \s*#?\d+(?:\.\d+)?\)\s*$
SeriesTail(s, p) ==
    LET a == SkipWS(s, p)
        b == IF a <= Len(s) /\ s[a] = "#" THEN a + 1 ELSE a
        DigitsEnd(q) ==
            LET idx == {i \in q..Len(s) : s[i] \notin DIGITS}
            IN  IF idx = {} THEN Len(s) + 1 ELSE CHOOSE i \in idx : \A j \in idx : i <= j
        c == DigitsEnd(b)
        d == IF c <= Len(s) /\ s[c] = "." THEN DigitsEnd(c + 1) ELSE c
    IN  /\ c > b
        /\ (c <= Len(s) /\ s[c] = ".") => d > c + 1
        /\ d <= Len(s)
        /\ s[d] = ")"
        /\ SkipWS(s, d + 1) = Len(s) + 1

\* a match of  \s*\([^)]*,\s*#?\d+(?:\.\d+)?\)\s*$  starts at i
SeriesParenAt(s, i) ==
    LET j == SkipWS(s, i)
    IN  /\ j <= Len(s)
        /\ s[j] = "("
        /\ \E k \in (j+1)..Len(s) :
              /\ s[k] = ","
              /\ \A m \in (j+1)..(k-1) : s[m] # ")"
              /\ SeriesTail(s, k + 1)

\* a match of  \s*\([^)]+\)\s*$  starts at i
TrailingParenAt(s, i) ==
    LET j == SkipWS(s, i)
    IN  /\ j <= Len(s)
        /\ s[j] = "("
        /\ \E r \in (j+2)..Len(s) :
              /\ s[r] = ")"
              /\ \A m \in (j+1)..(r-1) : s[m] # ")"
              /\ SkipWS(s, r + 1) = Len(s) + 1

\* re.sub(pattern + '$', '', s), given the set idx of positions where a match
\* that runs to the end of s starts: cut s at the leftmost of them
CutAtLeftmost(s, idx) ==
    IF idx = {} THEN s
    ELSE Sub(s, 1, (CHOOSE i \in idx : \A j \in idx : i <= j) - 1)

\* end (exclusive) of the match of  \s*\[[^\]]+\]\s*  starting at p, 0 if none
BracketEnd(s, p) ==
    LET j == SkipWS(s, p)
        close == {r \in (j+1)..Len(s) : s[r] = "]"}
        r == IF close = {} THEN 0 ELSE CHOOSE x \in close : \A y \in close : x <= y
    IN  IF j <= Len(s) /\ s[j] = "[" /\ r > j + 1 THEN SkipWS(s, r + 1) ELSE 0

\* end (exclusive) of the match of  \s*\([^)]+\)  starting at p, 0 if none
ParenEnd(s, p) ==
    LET j == SkipWS(s, p)
        close == {r \in (j+1)..Len(s) : s[r] = ")"}
        r == IF close = {} THEN 0 ELSE CHOOSE x \in close : \A y \in close : x <= y
    IN  IF j <= Len(s) /\ s[j] = "(" /\ r > j + 1 THEN r + 1 ELSE 0

\* re.sub(r'\s*\[[^\]]+\]\s*', '', s): scan left to right from p, drop each
\* match, resume after it
RECURSIVE RemoveBrackets(_, _)
RemoveBrackets(s, p) ==
    IF p > Len(s) THEN <<>>
    ELSE IF BracketEnd(s, p) # 0 THEN RemoveBrackets(s, BracketEnd(s, p))
         ELSE <<s[p]>> \o RemoveBrackets(s, p + 1)

\* re.sub(r'\s*\([^)]+\)', '', s): scan left to right from p, drop each match,
\* resume after it
RECURSIVE RemoveParens(_, _)
RemoveParens(s, p) ==
    IF p > Len(s) THEN <<>>
    ELSE IF ParenEnd(s, p) # 0 THEN RemoveParens(s, ParenEnd(s, p))
         ELSE <<s[p]>> \o RemoveParens(s, p + 1)

\* a match of  :\s+a novel.*$  starts at i
ANovelAt(s, i) ==
    /\ s[i] = ":"
    /\ SkipWS(s, i + 1) > i + 1
    /\ LitAt(s, SkipWS(s, i + 1), <<"a", " ", "n", "o", "v", "e", "l">>)

\* a match of  :\s+book \d+.*$  starts at i
BookNAt(s, i) ==
    LET q == SkipWS(s, i + 1)
    IN  /\ s[i] = ":"
        /\ q > i + 1
        /\ LitAt(s, q, <<"b", "o", "o", "k", " ">>)
        /\ q + 5 <= Len(s)
        /\ s[q + 5] \in DIGITS

\* normalize_title_for_dedup
normalize_title_for_dedup(title) ==
    IF title = None THEN <<>>
    ELSE LET t0 == Strip(title)
             t1 == CutAtLeftmost(t0, {i \in 1..Len(t0) : SeriesParenAt(t0, i)})
             t2 == CutAtLeftmost(t1, {i \in 1..Len(t1) : TrailingParenAt(t1, i)})
             t3 == RemoveBrackets(t2, 1)
             t4 == CollapseWS(Strip(Lower(t3)))
             t5 == CutAtLeftmost(t4, {i \in 1..Len(t4) : ANovelAt(t4, i)})
         IN  CutAtLeftmost(t5, {i \in 1..Len(t5) : BookNAt(t5, i)})

\* "Last, First" -> "First Last" on the first comma (shared by both author
\* normalizers); s contains a comma
SwapAtComma(s) ==
    LET parts == SplitOnce(s, ",")
    IN  Strip(parts[2]) \o <<" ">> \o Strip(parts[1])

\* normalize_author
normalize_author(author) ==
    IF author = None THEN <<>>
    ELSE LET a == Strip(author)
         IN  IF HasChar(a, ",") THEN SwapAtComma(a) ELSE a

\* re.split(r',\s+(?=[A-Z])', s)[0]
FirstCoAuthor(s) ==
    LET idx == {i \in 1..Len(s) :
                   /\ s[i] = ","
                   /\ SkipWS(s, i + 1) > i + 1
                   /\ SkipWS(s, i + 1) <= Len(s)
                   /\ IsUpper(s[SkipWS(s, i + 1)])}
    IN  IF idx = {} THEN s
        ELSE Sub(s, 1, (CHOOSE i \in idx : \A j \in idx : i <= j) - 1)

\* normalize_author_for_dedup
normalize_author_for_dedup(author) ==
    IF author = None THEN <<>>
    ELSE LET a0 == Strip(author)
             a1 == RemoveParens(a0, 1)
             a2 == Strip(FirstCoAuthor(a1))
             a3 == IF HasChar(a2, ",") /\ TokenCount(Strip(SplitOnce(a2, ",")[2])) <= 2
                   THEN SwapAtComma(a2) ELSE a2
         IN  Strip(Lower(a3))

(***************************************************************************)
(* Identity Resolver: build_base_dataset.py                                *)
(***************************************************************************)
\* hashlib.md5(x).hexdigest()[:12], taken as collision-free: an injective
\* function of the hashed text
Md5Hex12(x) == x

\* mutant: the native id tried before the ISBN
generate_book_key_id_first(isbn13, title, author, book_id) ==
    IF book_id # None /\ book_id # <<>>
    THEN <<"g", "r", ":">> \o book_id
    ELSE IF isbn13 # None /\ isbn13 # <<>> /\ isbn13 # <<"n", "a", "n">>
         THEN <<"i", "s", "b", "n", ":">> \o isbn13
         ELSE <<"t", "a", ":">>
                 \o Md5Hex12(normalize_text(title) \o <<"|">> \o normalize_text(author))

\* mutant: the hash taken over the raw title and author
generate_book_key_raw_hash(isbn13, title, author, book_id) ==
    IF isbn13 # None /\ isbn13 # <<>> /\ isbn13 # <<"n", "a", "n">>
    THEN <<"i", "s", "b", "n", ":">> \o isbn13
    ELSE IF book_id # None /\ book_id # <<>>
         THEN <<"g", "r", ":">> \o book_id
         ELSE <<"t", "a", ":">> \o Md5Hex12(title \o <<"|">> \o author)

\* generate_book_key: isbn:<isbn13>, gr:<book_id>, or ta:<hash>
generate_book_key(isbn13, title, author, book_id) ==
    IF isbn13 # None /\ isbn13 # <<>> /\ isbn13 # <<"n", "a", "n">>
    THEN <<"i", "s", "b", "n", ":">> \o isbn13
    ELSE IF book_id # None /\ book_id # <<>>
         THEN <<"g", "r", ":">> \o book_id
         ELSE <<"t", "a", ":">>
                 \o Md5Hex12(normalize_text(title) \o <<"|">> \o normalize_text(author))

\* re.sub(r'<[^>]+>', '', s)
RECURSIVE StripTags(_, _)
StripTags(s, p) ==
    IF p > Len(s) THEN <<>>
    ELSE LET close == {r \in (p+2)..Len(s) : s[r] = ">" /\ \A m \in (p+1)..(r-1) : s[m] # ">"}
         IN  IF s[p] = "<" /\ close # {}
             THEN StripTags(s, (CHOOSE r \in close : TRUE) + 1)
             ELSE <<s[p]>> \o StripTags(s, p + 1)

\* str.replace(lit, rep)
RECURSIVE ReplaceLit(_, _, _, _)
ReplaceLit(s, p, lit, rep) ==
    IF p > Len(s) THEN <<>>
    ELSE IF LitAt(s, p, lit) THEN rep \o ReplaceLit(s, p + Len(lit), lit, rep)
         ELSE <<s[p]>> \o ReplaceLit(s, p + 1, lit, rep)

\* the two three-character literals of clean_description (a mis-decoded em dash
\* and en dash), one element per character, named by code point
EM_DASH == <<"<U+00E2>", "<U+20AC>", "<U+201D>">>
EN_DASH == <<"<U+00E2>", "<U+20AC>", "<U+201C>">>

\* clean_description: strip HTML tags, dashes to ". ", collapse whitespace, strip
\* (a substitution is evaluated only on a text that holds the first character
\* of what it replaces; on any other text it changes nothing)
clean_description(desc) ==
    IF desc = None THEN <<>>
    ELSE LET d1 == IF HasChar(desc, "<") THEN StripTags(desc, 1) ELSE desc
             d2 == IF HasChar(d1, EM_DASH[1])
                   THEN ReplaceLit(d1, 1, EM_DASH, <<".", " ">>) ELSE d1
             d3 == IF HasChar(d2, EN_DASH[1])
                   THEN ReplaceLit(d2, 1, EN_DASH, <<".", " ">>) ELSE d2
             d4 == IF \E i \in 1..Len(d3) : d3[i] \in WS THEN CollapseWS(d3) ELSE d3
         IN  Strip(d4)

(***************************************************************************)
(* Thresholds: build_base_dataset.py                                       *)
(***************************************************************************)
MIN_DESCRIPTION_LENGTH == 80

MIN_KAGGLE_RATINGS_COUNT == 1000

\* 10000 in the source; scaled so that a corpus of MaxKaggle rows reaches the cap
TOP_N_POPULAR_BOOKS == 2

(***************************************************************************)
(* Input files: the rows the two CSV files may hold                        *)
(***************************************************************************)
MaxGoodreads == 2
MaxKaggle == 4

ENGLISH == <<"E","n","g","l","i","s","h">>

ISBN_A == <<"0","4","3","9","7","0","8","1","8","0">>
ISBN_B == <<"0","4","3","9","7","0","8","1","9","X">>
ISBN_C == <<"0","4","3","9","7","0","8","2","0","0">>

\* spreadsheet-escaped form of the Goodreads export: ="..."
Excel(isbn) == <<"=", "\"">> \o isbn \o <<"\"">>

GrRow(title, author, isbn13, id, shelf, avg) ==
    [Title |-> title, Author |-> author, ISBN13 |-> isbn13, BookId |-> id,
     ExclusiveShelf |-> shelf, AverageRating |-> avg]

GoodreadsRows ==
    { GrRow(<<"A","b">>, <<"C","d">>, Excel(ISBN_A), <<"1">>, "read", 4),
      GrRow(<<"a","b">>, <<"c","d">>, Excel(<<>>), <<"2">>, "read", NumNaN),
      GrRow(<<"A","b">>, <<"C","d">>, None, <<"3">>, "read", NumNaN),
      GrRow(<<"A","b"," ","(","S",","," ","#","1",")">>, <<"C","d">>, Excel(ISBN_A),
            <<"4">>, "read", NumNaN),
      GrRow(<<"G","h">>, <<"I","j">>, Excel(ISBN_B), <<"5">>, "to-read", 3),
      GrRow(<<"K","l">>, <<"N",","," ","M">>, None, <<"6">>, "read", 2) }

KgRow(title, author, isbn, language, numRatings, description, coverImg, rating, id) ==
    [title |-> title, author |-> author, isbn |-> isbn, language |-> language,
     numRatings |-> numRatings, description |-> description,
     genres |-> <<"[","'","F","'","]">>, coverImg |-> coverImg, rating |-> rating,
     bookId |-> id]

KaggleCorpus ==
    << KgRow(<<"A","b">>, <<"C","d">>, ISBN_A, ENGLISH, 5000,
             <<"<","i",">","x","<","/","i",">">>, <<"u","1">>, 5, <<"k","1">>),
       KgRow(<<"A","b"," ","(","S",","," ","#","1",")">>,
             <<"C","d",","," ","E","f"," ","(","I",")">>, ISBN_A, ENGLISH, 3000,
             <<"y">>, <<"u","2">>, 4, <<"k","2">>),
       KgRow(<<"A","b">>, <<"C","d">>, ISBN_A, <<"S","p","a","n","i","s","h">>, 9000,
             <<"z">>, <<"u","3">>, 3, <<"k","3">>),
       KgRow(<<"A","B">>, <<"c","d">>, <<"9","9","9","9">>, ENGLISH, 2000,
             None, <<"u","4">>, 2, <<"k","4">>),
       KgRow(<<"A","b">>, <<"C","d">>, <<"0","-","4","3","9","7","0","8","1","8","-","0">>,
             ENGLISH, 500,
             <<"w">>, <<"u","5">>, 1, <<"k","5">>),
       KgRow(<<"K","l">>, <<"M"," ","N">>, ISBN_C, ENGLISH \o <<";"," ","F","r">>, 1000,
             Rep("v", MIN_DESCRIPTION_LENGTH), None, 4, <<"k","6">>),
       KgRow(<<"O","p">>, <<"Q","r">>, None, None, 7000,
             Rep("t", MIN_DESCRIPTION_LENGTH), <<"u","7">>, 4, <<"k","7">>),
       KgRow(<<" ","o","P">>, <<"Q","R">>, None, ENGLISH, 2000,
             <<" ">> \o Rep("s", MIN_DESCRIPTION_LENGTH - 1), <<"u","8">>, 4,
             <<"k","8">>) >>

\* the rows of seq at the positions S, in order
RECURSIVE Pick(_, _)
Pick(seq, S) ==
    IF S = {} THEN <<>>
    ELSE LET i == CHOOSE x \in S : \A y \in S : x <= y
         IN  <<seq[i]>> \o Pick(seq, S \ {i})

\* an export lists a book (a Book Id) once
GoodreadsFiles ==
    UNION {{f \in [1..n -> GoodreadsRows] : \A i, j \in 1..n : i # j => f[i] # f[j]} :
              n \in 0..MaxGoodreads}

KaggleFiles ==
    {Pick(KaggleCorpus, S) : S \in {T \in SUBSET (1..Len(KaggleCorpus)) :
                                       Cardinality(T) <= MaxKaggle}}

NoFile == [exists |-> FALSE, rows |-> <<>>]
File(rows) == [exists |-> TRUE, rows |-> rows]

(***************************************************************************)
(* State of main(): build_base_dataset.py                                  *)
(***************************************************************************)
VARIABLES
    pc,                       \* the step main() is at
    goodreads_file,           \* GOODREADS_FILE on disk
    kaggle_file,              \* KAGGLE_FILE on disk
    output_file,              \* OUTPUT_FILE on disk
    goodreads,                \* the goodreads data frame
    kaggle,                   \* the kaggle data frame
    goodreads_isbns,          \* set of isbn13_clean of goodreads
    goodreads_titles_authors, \* set of (title_norm, author_norm) of goodreads
    gr_records,               \* the primary records
    kaggle_records,           \* the corpus (is_read=False) records
    kaggle_by_isbn,           \* lookup isbn_clean -> kaggle row
    kaggle_by_title_author,   \* lookup (title_norm, author_norm) -> kaggle row
    idx,                      \* position of the backfill loop in gr_records
    kaggle_match,             \* the loop's kaggle_match of each finished iteration
    all_records,              \* the combined data frame
    args,                     \* arguments of the function under check
    result                    \* its result

\* apply_exclusions.py: run_exclusions()
VARIABLES
    exclusions_file,          \* EXCLUSIONS_FILE on disk
    library_file,             \* LIBRARY_FILE on disk
    galaxy_file,              \* GALAXY_FILE on disk
    analytics_file,           \* ANALYTICS_FILE on disk
    exclusions,               \* the loaded exclusion config
    books,                    \* the loaded library (run_exclusions), the book
                              \* records to update (enrich_books main)
    excluded_books,           \* records removed by a rule
    filtered_books,           \* records kept
    exclusion_reasons,        \* Counter: reason tag -> number of records
    run_log                   \* the number of records each finished run of
                              \* apply_exclusions.py excluded

exclusion_vars == <<exclusions_file, library_file, galaxy_file, analytics_file,
                    exclusions, books, excluded_books, filtered_books,
                    exclusion_reasons, run_log>>

\* enrich_books.py: main()
VARIABLES
    books_file,               \* the file at args.books
    cache_file,               \* the file at args.cache
    tmp_file,                 \* the file at args.cache + ".tmp"
    queue_file,               \* the rows of args.queue
    out_file,                 \* the file at args.out
    cache,                    \* the in-memory cache: isbn -> payload
    queue_rows,               \* the queue rows read
    results,                  \* book_key -> payload
    queue_i,                  \* the loop's i: position in queue_rows
    lookups                   \* the ISBNs enrich_one was called with, in order

enrich_vars == <<books_file, cache_file, tmp_file, queue_file, out_file, cache,
                 queue_rows, results, queue_i, lookups>>

\* generate_embeddings_v2.py: run_pipeline(), which reads the enriched book
\* records (out_file) and writes the library (library_file)
VARIABLES
    df_records,               \* run_pipeline's df: the records of INPUT_FILE
    output_data               \* the library records to dump

embedding_vars == <<df_records, output_data>>

\* the process build_base_dataset.py runs in
VARIABLE
    exit_status               \* <<>> while it runs, <<status>> once it ended

vars == <<pc, goodreads_file, kaggle_file, output_file, goodreads, kaggle,
          goodreads_isbns, goodreads_titles_authors, gr_records, kaggle_records,
          kaggle_by_isbn, kaggle_by_title_author, idx, kaggle_match, all_records,
          args, result, exclusion_vars, enrich_vars, embedding_vars, exit_status>>

frames_but_all == <<goodreads, kaggle, goodreads_isbns, goodreads_titles_authors,
                   gr_records, kaggle_records, kaggle_by_isbn,
                   kaggle_by_title_author, idx, kaggle_match>>

frames == <<goodreads, kaggle, goodreads_isbns, goodreads_titles_authors,
            gr_records, kaggle_records, kaggle_by_isbn, kaggle_by_title_author,
            idx, kaggle_match, all_records>>

\* run_exclusions() has not run
ExclusionsIdle ==
    /\ exclusions_file = NoFile
    /\ library_file = NoFile
    /\ galaxy_file = NoFile
    /\ analytics_file = NoFile
    /\ exclusions = <<>>
    /\ excluded_books = <<>>
    /\ filtered_books = <<>>
    /\ exclusion_reasons = <<>>
    /\ run_log = <<>>

\* the main() of enrich_books.py has not run
EnrichIdle ==
    /\ books_file = NoFile
    /\ cache_file = NoFile
    /\ tmp_file = NoFile
    /\ queue_file = NoFile
    /\ out_file = NoFile
    /\ cache = <<>>
    /\ queue_rows = <<>>
    /\ results = <<>>
    /\ queue_i = 0
    /\ lookups = <<>>

\* run_pipeline() of generate_embeddings_v2.py has not run
EmbeddingIdle ==
    /\ df_records = <<>>
    /\ output_data = <<>>

Init ==
    /\ ExclusionsIdle
    /\ EnrichIdle
    /\ EmbeddingIdle
    /\ exit_status = <<>>
    /\ books = <<>>
    /\ pc = "load"
    /\ goodreads_file \in {NoFile} \cup {File(rows) : rows \in GoodreadsFiles}
    /\ kaggle_file \in {NoFile} \cup {File(rows) : rows \in KaggleFiles}
    /\ output_file = NoFile
    /\ goodreads = <<>>
    /\ kaggle = <<>>
    /\ goodreads_isbns = {}
    /\ goodreads_titles_authors = {}
    /\ gr_records = <<>>
    /\ kaggle_records = <<>>
    /\ kaggle_by_isbn = <<>>
    /\ kaggle_by_title_author = <<>>
    /\ idx = 0
    /\ kaggle_match = <<>>
    /\ all_records = <<>>
    /\ args = <<>>
    /\ result = <<>>

\* the elements of seq that satisfy Test, in order (a boolean-mask selection)
Where(seq, Test(_)) == SelectSeq(seq, Test)

\* the first element of seq that satisfies Test (precondition: there is one)
First(seq, Test(_)) == seq[CHOOSE i \in 1..Len(seq) :
                              Test(seq[i]) /\ \A j \in 1..(i-1) : ~Test(seq[j])]

Range(seq) == {seq[i] : i \in 1..Len(seq)}

\* [1/6] pd.read_csv of both files; a missing file ends main()
LoadData ==
    /\ pc = "load"
    /\ IF goodreads_file.exists /\ kaggle_file.exists
       THEN /\ goodreads' = [i \in 1..Len(goodreads_file.rows) |->
                                [index |-> i, row |-> goodreads_file.rows[i]]]
            /\ kaggle' = [i \in 1..Len(kaggle_file.rows) |->
                                [index |-> i, row |-> kaggle_file.rows[i]]]
            /\ pc' = "process_goodreads"
       ELSE /\ pc' = "returned"
            /\ UNCHANGED <<goodreads, kaggle>>
    /\ UNCHANGED <<exclusion_vars, enrich_vars, embedding_vars, exit_status, goodreads_file, kaggle_file, output_file, goodreads_isbns,
                   goodreads_titles_authors, gr_records, kaggle_records,
                   kaggle_by_isbn, kaggle_by_title_author, idx, kaggle_match,
                   all_records, args, result>>

\* the goodreads data frame row with its derived columns
GoodreadsColumns(g) ==
    [index |-> g.index,
     Title |-> g.row.Title,
     Author |-> g.row.Author,
     BookId |-> g.row.BookId,
     AverageRating |-> g.row.AverageRating,
     isbn13_clean |-> clean_isbn(g.row.ISBN13),
     author_norm |-> normalize_author(g.row.Author),
     title_norm |-> normalize_text(g.row.Title),
     book_key |-> generate_book_key(clean_isbn(g.row.ISBN13), g.row.Title,
                                    g.row.Author, g.row.BookId)]

\* one row of gr_records
GoodreadsRecord(g) ==
    [index |-> g.index,
     book_key |-> g.book_key,
     title |-> g.Title,
     author |-> g.Author,
     isbn13 |-> g.isbn13_clean,
     description_raw |-> <<>>,
     description_clean |-> <<>>,
     genres_list |-> <<"[", "]">>,
     cover_image_url |-> <<>>,
     avg_rating |-> g.AverageRating,
     num_ratings |-> NumNaN,
     popularity_score |-> NumNaN,
     is_read |-> TRUE,
     source |-> "goodreads_export",
     source_book_id |-> g.BookId]

\* [2/6] keep the 'read' shelf, normalize, key, build gr_records
ProcessGoodreads ==
    /\ pc = "process_goodreads"
    /\ LET read == Where(goodreads, LAMBDA g : g.row.ExclusiveShelf = "read")
           df == [i \in 1..Len(read) |-> GoodreadsColumns(read[i])]
       IN  /\ goodreads' = df
           /\ gr_records' = [i \in 1..Len(df) |-> GoodreadsRecord(df[i])]
    /\ pc' = "process_kaggle"
    /\ UNCHANGED <<exclusion_vars, enrich_vars, embedding_vars, exit_status, goodreads_file, kaggle_file, output_file, kaggle,
                   goodreads_isbns, goodreads_titles_authors, kaggle_records,
                   kaggle_by_isbn, kaggle_by_title_author, idx, kaggle_match,
                   all_records, args, result>>

\* Series.str.contains(lit, na=False)
Contains(s, lit) == s # None /\ \E p \in 1..Len(s) : LitAt(s, p, lit)

\* the language mask of the corpus
LanguageOk(language) ==
    \/ language = ENGLISH
    \/ Contains(language, ENGLISH)
    \/ language = None

\* the kaggle data frame row with its normalized columns
KaggleColumns(k) ==
    [index |-> k.index,
     title |-> k.row.title,
     author |-> k.row.author,
     language |-> k.row.language,
     numRatings |-> k.row.numRatings,
     description |-> k.row.description,
     genres |-> k.row.genres,
     coverImg |-> k.row.coverImg,
     rating |-> k.row.rating,
     bookId |-> k.row.bookId,
     isbn_clean |-> clean_isbn(k.row.isbn),
     author_norm |-> normalize_author(k.row.author),
     title_norm |-> normalize_text(k.row.title),
     is_read |-> FALSE]

\* x >= y on a column that may hold NaN (a comparison with NaN is False)
GreaterEq(x, y) == x # NumNaN /\ x >= y

\* mutant: the floor as a strict bound
RatingsAbove(k) == k.numRatings # NumNaN /\ k.numRatings > MIN_KAGGLE_RATINGS_COUNT

\* the ratings mask of the corpus
RatingsOk(k) == GreaterEq(k.numRatings, MIN_KAGGLE_RATINGS_COUNT)

\* sort_values('numRatings', ascending=False) with the default (unstable)
\* quicksort: every ordering of df that is descending in numRatings
SortedByRatings(df) ==
    LET n == Len(df)
        perms == {p \in [1..n -> 1..n] : \A i, j \in 1..n : i # j => p[i] # p[j]}
    IN  {[i \in 1..n |-> df[p[i]]] : p \in
            {q \in perms : \A i, j \in 1..n :
                              i < j => df[q[i]].numRatings >= df[q[j]].numRatings}}

\* is_already_read: the corpus row matches a primary record
is_already_read(k, isbns, titles_authors) ==
    \/ (k.isbn_clean # None /\ k.isbn_clean \in isbns)
    \/ <<k.title_norm, k.author_norm>> \in titles_authors

\* DataFrame.head(n)
HeadN(df, n) == IF Len(df) > n THEN SubSeq(df, 1, n) ELSE df

\* one row of kaggle_records
KaggleRecord(k) ==
    [index |-> k.index,
     book_key |-> generate_book_key(k.isbn_clean, k.title, k.author, None),
     title |-> k.title,
     author |-> k.author,
     isbn13 |-> k.isbn_clean,
     description_raw |-> k.description,
     description_clean |-> <<>>,
     genres_list |-> k.genres,
     cover_image_url |-> k.coverImg,
     avg_rating |-> k.rating,
     num_ratings |-> k.numRatings,
     popularity_score |-> k.numRatings,
     is_read |-> FALSE,
     source |-> "kaggle_best_books",
     source_book_id |-> k.bookId]

\* [3/6] normalize, language and ratings filters, sort by popularity, mark the
\* rows already read, keep the top N unread rows as kaggle_records
ProcessKaggle ==
    /\ pc = "process_kaggle"
    /\ LET cols == [i \in 1..Len(kaggle) |-> KaggleColumns(kaggle[i])]
           english == Where(cols, LAMBDA k : LanguageOk(k.language))
           rated == Where(english, RatingsOk)
           isbns == {g.isbn13_clean : g \in Range(goodreads)} \ {None}
           tas == {<<g.title_norm, g.author_norm>> : g \in Range(goodreads)}
       IN  \E sorted \in SortedByRatings(rated) :
              LET marked == [i \in 1..Len(sorted) |->
                               [sorted[i] EXCEPT
                                   !.is_read = is_already_read(sorted[i], isbns, tas)]]
                  kaggle_unread ==
                      HeadN(Where(marked, LAMBDA k : ~k.is_read), TOP_N_POPULAR_BOOKS)
              IN  /\ kaggle' = marked
                  /\ goodreads_isbns' = isbns
                  /\ goodreads_titles_authors' = tas
                  /\ kaggle_records' =
                        [i \in 1..Len(kaggle_unread) |-> KaggleRecord(kaggle_unread[i])]
    /\ pc' = "build_lookups"
    /\ UNCHANGED <<exclusion_vars, enrich_vars, embedding_vars, exit_status, goodreads_file, kaggle_file, output_file, goodreads, gr_records,
                   kaggle_by_isbn, kaggle_by_title_author, idx, kaggle_match,
                   all_records, args, result>>

\* drop_duplicates(subset=key).set_index(key).to_dict('index'): each key maps
\* to the first row of df that carries it
FirstByKey(df, Key(_)) ==
    [key \in {Key(k) : k \in Range(df)} |-> First(df, LAMBDA k : Key(k) = key)]

\* [4/6] the two lookup dictionaries of the backfill
BuildLookups ==
    /\ pc = "build_lookups"
    /\ kaggle_by_isbn' =
          FirstByKey(Where(kaggle, LAMBDA k : k.isbn_clean # None),
                     LAMBDA k : k.isbn_clean)
    /\ kaggle_by_title_author' =
          FirstByKey(kaggle, LAMBDA k : <<k.title_norm, k.author_norm>>)
    /\ idx' = 1
    /\ kaggle_match' = <<>>
    /\ pc' = "backfill"
    /\ UNCHANGED <<exclusion_vars, enrich_vars, embedding_vars, exit_status, goodreads_file, kaggle_file, output_file, goodreads, kaggle,
                   goodreads_isbns, goodreads_titles_authors, gr_records,
                   kaggle_records, all_records, args, result>>

\* the corpus row the loop body finds for a primary record: <<row>>, or <<>>
FindMatch(row, by_isbn, by_title_author, titles_authors) ==
    IF row.isbn13 # None /\ row.isbn13 # <<>> /\ row.isbn13 \in DOMAIN by_isbn
    THEN <<by_isbn[row.isbn13]>>
    ELSE IF <<row.title, row.author>> \in titles_authors
         THEN LET title_norm == normalize_text(row.title)
                  author_norm == normalize_text(normalize_author(row.author))
              IN  IF <<title_norm, author_norm>> \in DOMAIN by_title_author
                  THEN <<by_title_author[<<title_norm, author_norm>>]>>
                  ELSE <<>>
         ELSE <<>>

\* mutant: avg_rating assigned without the isna guard
BackfillUnguarded(row, m) ==
    LET r1 == [row EXCEPT !.description_raw = m.description,
                          !.genres_list = m.genres,
                          !.cover_image_url = m.coverImg,
                          !.avg_rating = m.rating]
    IN  IF row.popularity_score = NumNaN \/ row.popularity_score = 0
        THEN [r1 EXCEPT !.popularity_score = m.numRatings,
                        !.num_ratings = m.numRatings]
        ELSE r1

\* the assignments of the loop body when kaggle_match is found
Backfill(row, m) ==
    LET r1 == [row EXCEPT !.description_raw = m.description,
                          !.genres_list = m.genres,
                          !.cover_image_url = m.coverImg]
        r2 == IF row.avg_rating = NumNaN
              THEN [r1 EXCEPT !.avg_rating = m.rating] ELSE r1
    IN  IF row.popularity_score = NumNaN \/ row.popularity_score = 0
        THEN [r2 EXCEPT !.popularity_score = m.numRatings,
                        !.num_ratings = m.numRatings]
        ELSE r2

\* one iteration of the loop over gr_records
BackfillStep ==
    /\ pc = "backfill"
    /\ idx <= Len(gr_records)
    /\ LET row == gr_records[idx]
           m == FindMatch(row, kaggle_by_isbn, kaggle_by_title_author,
                          goodreads_titles_authors)
       IN  /\ kaggle_match' = Append(kaggle_match, m)
           /\ gr_records' = IF m # <<>>
                            THEN [gr_records EXCEPT ![idx] = Backfill(row, m[1])]
                            ELSE gr_records
    /\ idx' = idx + 1
    /\ UNCHANGED <<pc, exclusion_vars, enrich_vars, embedding_vars, exit_status, goodreads_file, kaggle_file, output_file, goodreads, kaggle,
                   goodreads_isbns, goodreads_titles_authors, kaggle_records,
                   kaggle_by_isbn, kaggle_by_title_author, all_records, args, result>>

\* pd.concat([gr_records, kaggle_records], ignore_index=True)
Concat(primary, corpus) ==
    LET both == primary \o corpus
    IN  [i \in 1..Len(both) |-> [both[i] EXCEPT !.index = i]]

\* [5/6] combine the two record sets and clean the descriptions
Combine ==
    /\ pc = "backfill"
    /\ idx > Len(gr_records)
    /\ LET cat == Concat(gr_records, kaggle_records)
       IN  all_records' =
              [i \in 1..Len(cat) |->
                  [cat[i] EXCEPT !.description_clean =
                                     clean_description(cat[i].description_raw)]]
    /\ pc' = "dedup_book_key"
    /\ UNCHANGED <<exclusion_vars, enrich_vars, embedding_vars, exit_status, goodreads_file, kaggle_file, output_file, goodreads, kaggle,
                   goodreads_isbns, goodreads_titles_authors, gr_records,
                   kaggle_records, kaggle_by_isbn, kaggle_by_title_author, idx,
                   kaggle_match, args, result>>

\* mutant: duplicates dropped on the title column instead of book_key
DropDuplicateTitles(df) ==
    LET keep == {i \in 1..Len(df) : \A j \in 1..(i-1) : df[j].title # df[i].title}
    IN  Pick(df, keep)

\* mutant: keep='last'
DropDuplicateKeysLast(df) ==
    LET keep == {i \in 1..Len(df) :
                    \A j \in (i+1)..Len(df) : df[j].book_key # df[i].book_key}
    IN  Pick(df, keep)

\* drop_duplicates(subset=['book_key'], keep='first')
DropDuplicateKeys(df) ==
    LET keep == {i \in 1..Len(df) : \A j \in 1..(i-1) : df[j].book_key # df[i].book_key}
    IN  Pick(df, keep)

\* first deduplication pass: one record per book_key
DedupByBookKey ==
    /\ pc = "dedup_book_key"
    /\ all_records' = DropDuplicateKeys(all_records)
    /\ pc' = "dedup_title_author"
    /\ UNCHANGED <<exclusion_vars, enrich_vars, embedding_vars, exit_status, goodreads_file, kaggle_file, output_file, frames_but_all,
                   args, result>>

\* mutant: the dedup key built on normalize_text, without the series stripping
dedup_key_plain(r) ==
    normalize_text(r.title) \o <<"|">> \o normalize_author_for_dedup(r.author)

\* the dedup_key column
dedup_key(r) ==
    normalize_title_for_dedup(r.title) \o <<"|">> \o normalize_author_for_dedup(r.author)

\* mutant: the mask without the is_read disjunct
mask_keep_any(r, read_dedup_keys) == dedup_key(r) \notin read_dedup_keys

\* mask_keep of the second pass
mask_keep(r, read_dedup_keys) == r.is_read \/ dedup_key(r) \notin read_dedup_keys

\* second deduplication pass: drop unread records that carry a read record's
\* dedup key
DropReadDuplicates(df) ==
    LET read_dedup_keys == {dedup_key(r) : r \in {x \in Range(df) : x.is_read}}
    IN  Where(df, LAMBDA r : mask_keep(r, read_dedup_keys))

DedupByTitleAuthor ==
    /\ pc = "dedup_title_author"
    /\ all_records' = DropReadDuplicates(all_records)
    /\ pc' = "save"
    /\ UNCHANGED <<exclusion_vars, enrich_vars, embedding_vars, exit_status, goodreads_file, kaggle_file, output_file, frames_but_all,
                   args, result>>

\* all_records.to_csv(OUTPUT_FILE)
Save ==
    /\ pc = "save"
    /\ output_file' = File(all_records)
    /\ pc' = "generate_queue"
    /\ UNCHANGED <<exclusion_vars, enrich_vars, embedding_vars, exit_status, goodreads_file, kaggle_file, frames, args, result>>

\* the needs_description mask
needs_description(r) == Len(r.description_clean) < MIN_DESCRIPTION_LENGTH

\* mutant: the cover mask without isna()
needs_cover_empty_only(r) == r.cover_image_url = <<>>

\* the needs_cover mask: isna() or ''
needs_cover(r) == r.cover_image_url = None \/ r.cover_image_url = <<>>

\* one row of queue_output
QueueRecord(r) ==
    [book_key |-> r.book_key,
     title_clean |-> r.title,
     author_clean |-> r.author,
     isbn |-> r.isbn13,
     is_read |-> r.is_read,
     source |-> r.source,
     source_book_id |-> r.source_book_id,
     needs_description |-> needs_description(r),
     needs_cover |-> needs_cover(r),
     description_quality_flag |-> ""]

\* [6/6] the records that need a description or a cover are written, with
\* the two flags, to QUEUE_FILE; the summary printed after it changes nothing
GenerateQueue ==
    /\ pc = "generate_queue"
    /\ LET enrichment_queue ==
               Where(all_records, LAMBDA r : needs_description(r) \/ needs_cover(r))
       IN  queue_file' = File([k \in 1..Len(enrichment_queue) |->
                                  QueueRecord(enrichment_queue[k])])
    /\ pc' = "done"
    /\ UNCHANGED <<exclusion_vars, embedding_vars, exit_status, books_file, cache_file,
                   tmp_file, out_file, cache, queue_rows, results, queue_i, lookups,
                   goodreads_file, kaggle_file, output_file, frames, args, result>>

\* main() has returned, after the message of a missing file or at its end,
\* and nothing follows the call of main(): the interpreter exits with status 0
Exit ==
    /\ pc \in {"returned", "done"}
    /\ exit_status' = <<0>>
    /\ pc' = "exited"
    /\ UNCHANGED <<exclusion_vars, enrich_vars, embedding_vars, goodreads_file,
                   kaggle_file, output_file, frames, args, result>>

Next ==
    \/ LoadData
    \/ ProcessGoodreads
    \/ ProcessKaggle
    \/ BuildLookups
    \/ BackfillStep
    \/ Combine
    \/ DedupByBookKey
    \/ DedupByTitleAuthor
    \/ Save
    \/ GenerateQueue
    \/ Exit

Spec == Init /\ [][Next]_vars

(***************************************************************************)
(* Properties of the base build                                            *)
(***************************************************************************)
\* the output of the base build, once written
Output == output_file.rows

\* the dedup-normalized (title, author) pair of a record
DedupPair(r) == <<normalize_title_for_dedup(r.title), normalize_author_for_dedup(r.author)>>

\* the primary records as built, before the backfill loop touches them
BeforeBackfill(i) == GoodreadsRecord(goodreads[i])

\* a cell holds a value: not None/NaN, not the empty string, not the empty list
PopulatedText(v) == v # None /\ v # <<>> /\ v # <<"[", "]">>
PopulatedNumber(v) == v # NumNaN

BackfillDone ==
    pc \in {"dedup_book_key", "dedup_title_author", "save", "generate_queue", "done"}

\* C1: after the base build no two records of the output share a book_key.
C1_UniqueBookKey ==
    output_file.exists =>
        \A i, j \in 1..Len(Output) : i # j => Output[i].book_key # Output[j].book_key

\* C1 witness: the output was written, the combined records held two records
\* with one book_key, and the output still holds several records
C1_Witness ==
    /\ pc = "done"
    /\ output_file.exists
    /\ Len(Output) >= 2
    /\ LET cat == Concat(gr_records, kaggle_records)
       IN  \E i, j \in 1..Len(cat) : i # j /\ cat[i].book_key = cat[j].book_key

C3_ReadNeverLostToCorpus ==
    pc \in {"dedup_title_author", "save", "generate_queue", "done"} =>
        \A i \in 1..Len(gr_records) :
            \E r \in Range(all_records) :
                /\ r.is_read
                /\ r.book_key = gr_records[i].book_key
                /\ r.index <= i

\* C3 witness: both passes removed something: a primary record lost its place
\* to an earlier primary record with its key, and a corpus record was removed
C3_Witness ==
    /\ pc = "done"
    /\ \E i \in 1..Len(gr_records) : \A r \in Range(all_records) : r.index # i
    /\ \E k \in Range(kaggle_records) :
          \A r \in Range(all_records) : r.book_key # k.book_key

\* C4: the backfill loop leaves every populated field of every primary record
\* as it was before the loop (at every iteration, and when the loop has ended).
C4_BackfillNonDestructive ==
    pc \in {"backfill", "dedup_book_key"} =>
        \A i \in 1..Len(gr_records) :
            LET b == BeforeBackfill(i)
                a == gr_records[i]
            IN  /\ a.index = b.index /\ a.is_read = b.is_read /\ a.source = b.source
                /\ PopulatedText(b.book_key) => a.book_key = b.book_key
                /\ PopulatedText(b.title) => a.title = b.title
                /\ PopulatedText(b.author) => a.author = b.author
                /\ PopulatedText(b.isbn13) => a.isbn13 = b.isbn13
                /\ PopulatedText(b.source_book_id) => a.source_book_id = b.source_book_id
                /\ PopulatedText(b.description_raw) => a.description_raw = b.description_raw
                /\ PopulatedText(b.description_clean) =>
                      a.description_clean = b.description_clean
                /\ PopulatedText(b.genres_list) => a.genres_list = b.genres_list
                /\ PopulatedText(b.cover_image_url) => a.cover_image_url = b.cover_image_url
                /\ PopulatedNumber(b.avg_rating) => a.avg_rating = b.avg_rating
                /\ PopulatedNumber(b.num_ratings) => a.num_ratings = b.num_ratings
                /\ PopulatedNumber(b.popularity_score) =>
                      a.popularity_score = b.popularity_score

\* C4 witness: the loop is over and a primary record with a rating of its own
\* was matched to a corpus row with another rating, and took its description
C4_Witness ==
    /\ pc = "dedup_book_key"
    /\ \E i \in 1..Len(gr_records) :
          /\ kaggle_match[i] # <<>>
          /\ PopulatedNumber(BeforeBackfill(i).avg_rating)
          /\ kaggle_match[i][1].rating # BeforeBackfill(i).avg_rating
          /\ gr_records[i].description_raw = kaggle_match[i][1].description
          /\ PopulatedText(gr_records[i].description_raw)

\* the corpus as loaded from KAGGLE_FILE
Corpus == kaggle_file.rows

\* the record a took from the corpus row k every field the loop fills:
\* description, genres, cover, a missing rating, popularity and ratings count
FilledFrom(b, a, k) ==
    /\ a.description_raw = k.description
    /\ a.genres_list = k.genres
    /\ a.cover_image_url = k.coverImg
    /\ b.avg_rating = NumNaN => a.avg_rating = k.rating
    /\ a.popularity_score = k.numRatings
    /\ a.num_ratings = k.numRatings

\* C7: every primary record whose normalized ISBN is that of a corpus record
\* is backfilled from a corpus record with that ISBN.
C7_IsbnMatchBackfilled ==
    BackfillDone =>
        \A i \in 1..Len(gr_records) :
            LET b == BeforeBackfill(i)
                same == {k \in Range(Corpus) : clean_isbn(k.isbn) = b.isbn13}
            IN  (PopulatedText(b.isbn13) /\ same # {}) =>
                    \E k \in same : FilledFrom(b, gr_records[i], k)

\* the corpus row k and the primary record b agree on normalized title and author
SameTitleAuthor(k, b) ==
    /\ normalize_text(k.title) = normalize_text(b.title)
    /\ normalize_author(k.author) = normalize_author(b.author)

\* the primary record b finds its ISBN in the ISBN lookup
IsbnMatched(b) == PopulatedText(b.isbn13) /\ b.isbn13 \in DOMAIN kaggle_by_isbn

\* C8: every primary record without an ISBN match whose normalized title and
\* author are those of a row of the corpus frame is backfilled from such a row.
C8_TitleAuthorMatchBackfilled ==
    BackfillDone =>
        \A i \in 1..Len(gr_records) :
            LET b == BeforeBackfill(i)
                same == {k \in Range(kaggle) : SameTitleAuthor(k, b)}
            IN  (~IsbnMatched(b) /\ same # {}) =>
                    \E k \in same : FilledFrom(b, gr_records[i], k)

\* the corpus rows that share the lookup key under which m was found for b
SharingLookupKey(b, m) ==
    IF IsbnMatched(b)
    THEN {k \in Range(Corpus) : clean_isbn(k.isbn) = m.isbn_clean}
    ELSE {k \in Range(Corpus) :
             /\ normalize_text(k.title) = m.title_norm
             /\ normalize_author(k.author) = m.author_norm}

\* C9: the corpus row used for a backfill has the highest ratings count of the
\* corpus rows that share its lookup key.
C9_MostPopularUsed ==
    BackfillDone =>
        \A i \in 1..Len(gr_records) :
            kaggle_match[i] # <<>> =>
                \A k \in SharingLookupKey(BeforeBackfill(i), kaggle_match[i][1]) :
                    GreaterEq(kaggle_match[i][1].numRatings, k.numRatings)

\* the corpus row k is matched to a primary record: same normalized ISBN, or
\* same normalized title and author
Matched(k) ==
    \E g \in Range(goodreads) :
        \/ (clean_isbn(k.isbn) # None /\ clean_isbn(k.isbn) = g.isbn13_clean)
        \/ (normalize_text(k.title) = g.title_norm
              /\ normalize_author(k.author) = g.author_norm)

\* positions of the corpus rows that pass the ratings floor and are unmatched
UnmatchedAboveFloor ==
    {i \in 1..Len(Corpus) :
        /\ GreaterEq(Corpus[i].numRatings, MIN_KAGGLE_RATINGS_COUNT)
        /\ ~Matched(Corpus[i])}

\* ... and that pass the language mask as well
UnmatchedAboveFloorEnglish ==
    {i \in UnmatchedAboveFloor : LanguageOk(Corpus[i].language)}

Retained == {r.index : r \in Range(kaggle_records)}

Min(a, b) == IF a <= b THEN a ELSE b

\* kaggle_records are exactly the rows at the positions E, cut to the cap by
\* descending ratings count
ExactlyTopOf(E) ==
    /\ Retained \subseteq E
    /\ Len(kaggle_records) = Cardinality(Retained)
    /\ Cardinality(Retained) = Min(Cardinality(E), TOP_N_POPULAR_BOOKS)
    /\ \A i \in E \ Retained : \A j \in Retained :
          Corpus[i].numRatings <= Corpus[j].numRatings
    /\ \A r \in Range(kaggle_records) :
          /\ ~r.is_read
          /\ r.title = Corpus[r.index].title
          /\ r.author = Corpus[r.index].author
          /\ r.num_ratings = Corpus[r.index].numRatings
          /\ r.num_ratings >= MIN_KAGGLE_RATINGS_COUNT

\* kaggle_records has been built
KaggleDone == pc = "build_lookups"

\* C10 as stated: the is_read=False records are exactly the unmatched corpus
\* rows that pass the ratings floor, cut to the cap by descending ratings count.
C10_UnreadAreTopUnmatched == KaggleDone => ExactlyTopOf(UnmatchedAboveFloor)

\* C10 amended: ... the unmatched corpus rows that pass the ratings floor and
\* the language mask, cut to the cap by descending ratings count.
C10_UnreadAreTopUnmatchedEnglish == KaggleDone => ExactlyTopOf(UnmatchedAboveFloorEnglish)

\* C10 witness: more unmatched rows pass floor and language mask than the cap
\* admits, a row that passes both is matched, and the cap was applied
C10_Witness ==
    /\ KaggleDone
    /\ Cardinality(UnmatchedAboveFloorEnglish) > TOP_N_POPULAR_BOOKS
    /\ Cardinality(Retained) = TOP_N_POPULAR_BOOKS
    /\ \E i \in 1..Len(Corpus) :
          /\ Matched(Corpus[i])
          /\ LanguageOk(Corpus[i].language)
          /\ GreaterEq(Corpus[i].numRatings, MIN_KAGGLE_RATINGS_COUNT)

(***************************************************************************)
(* generate_book_key called on its own                                     *)
(***************************************************************************)
MaxTitleLen == 2

KeyArgs(isbn13, title, author, book_id) ==
    [isbn13 |-> isbn13, title |-> title, author |-> author, book_id |-> book_id]

\* the values clean_isbn hands over, and the two strings the test of
\* generate_book_key names
IsbnArgs ==
    {clean_isbn(x) : x \in {None, Excel(ISBN_A), ISBN_B, <<"9", "9", "9", "9">>}}
        \cup {<<>>, <<"n", "a", "n">>}

BookIdArgs == {None, <<>>, <<"7">>, <<"4", "2">>}

TitleArgs == {None, <<>>, <<"A", "b">>, <<" ", "a", "B", " ">>, <<"a", "|", "b">>}

AuthorArgs == {None, <<"C", "d">>, <<"c", " ", " ", "d">>}

HashChars == {"a", "B", " ", "|"}

HashTitles == UNION {[1..n -> HashChars] : n \in 0..MaxTitleLen}

HashAuthors == {<<>>, <<"b">>, <<" ", "B">>, <<"|", "b">>}

\* the main() of build_base_dataset.py has not run
BuildIdle ==
    /\ goodreads_file = NoFile
    /\ kaggle_file = NoFile
    /\ output_file = NoFile
    /\ goodreads = <<>>
    /\ kaggle = <<>>
    /\ goodreads_isbns = {}
    /\ goodreads_titles_authors = {}
    /\ gr_records = <<>>
    /\ kaggle_records = <<>>
    /\ kaggle_by_isbn = <<>>
    /\ kaggle_by_title_author = <<>>
    /\ idx = 0
    /\ kaggle_match = <<>>
    /\ all_records = <<>>
    /\ exit_status = <<>>

\* no program has run
Idle ==
    /\ BuildIdle
    /\ ExclusionsIdle
    /\ EnrichIdle
    /\ EmbeddingIdle
    /\ books = <<>>

\* one record, any combination of ISBN and native id
InitKey ==
    /\ Idle
    /\ pc = "call_key"
    /\ args \in {<<KeyArgs(i, t, a, b)>> :
                    i \in IsbnArgs, t \in TitleArgs, a \in AuthorArgs, b \in BookIdArgs}
    /\ result = <<>>

\* two records with neither ISBN nor native id
InitHash ==
    /\ Idle
    /\ pc = "call_key"
    /\ args \in {<<KeyArgs(None, t1, a1, None), KeyArgs(None, t2, a2, None)>> :
                    t1 \in HashTitles, t2 \in HashTitles,
                    a1 \in HashAuthors, a2 \in HashAuthors}
    /\ result = <<>>

\* generate_book_key applied to each argument record
CallGenerateBookKey ==
    /\ pc = "call_key"
    /\ result' = [i \in 1..Len(args) |->
                     generate_book_key(args[i].isbn13, args[i].title,
                                       args[i].author, args[i].book_id)]
    /\ pc' = "key_returned"
    /\ UNCHANGED <<exclusion_vars, enrich_vars, embedding_vars, exit_status, goodreads_file, kaggle_file, output_file, frames, args>>

SpecKey == InitKey /\ [][CallGenerateBookKey]_vars

SpecHash == InitHash /\ [][CallGenerateBookKey]_vars

\* a normalized ISBN: at least 10 characters, all digits or X
ValidIsbn(x) ==
    /\ x # None
    /\ Len(x) >= 10
    /\ \A i \in 1..Len(x) : x[i] \in DIGITS \cup {"X"}

HasNativeId(b) == b # None /\ b # <<>>

StartsWith(s, prefix) == LitAt(s, 1, prefix)

KEY_ISBN == <<"i", "s", "b", "n", ":">>
KEY_GR == <<"g", "r", ":">>
KEY_TA == <<"t", "a", ":">>

\* C5: with a valid ISBN13 the key is 'isbn:'+isbn13 whether or not a native id
\* is given; the 'gr:' form comes only without a valid ISBN, the 'ta:' form only
\* with neither.
C5_KeyPriority ==
    pc = "key_returned" =>
        LET a == args[1]
            k == result[1]
        IN  /\ ValidIsbn(a.isbn13) => k = KEY_ISBN \o a.isbn13
            /\ StartsWith(k, KEY_GR) =>
                  ~ValidIsbn(a.isbn13) /\ HasNativeId(a.book_id) /\ k = KEY_GR \o a.book_id
            /\ StartsWith(k, KEY_TA) => ~ValidIsbn(a.isbn13) /\ ~HasNativeId(a.book_id)
            /\ StartsWith(k, KEY_ISBN) \/ StartsWith(k, KEY_GR) \/ StartsWith(k, KEY_TA)

\* C5 witness: a record with a valid ISBN13 and a native id got its key
C5_Witness ==
    /\ pc = "key_returned"
    /\ ValidIsbn(args[1].isbn13)
    /\ HasNativeId(args[1].book_id)
    /\ StartsWith(result[1], KEY_ISBN)

SameNormalizedTitleAuthor(a, b) ==
    /\ normalize_text(a.title) = normalize_text(b.title)
    /\ normalize_text(a.author) = normalize_text(b.author)

NoSeparator(a) ==
    ~HasChar(normalize_text(a.title), "|") /\ ~HasChar(normalize_text(a.author), "|")

\* C6 as stated: two records without ISBN and native id get the same key
\* exactly when their normalized titles are equal and their normalized authors
\* are equal.
C6_SameKeyIffSamePair ==
    pc = "key_returned" =>
        (result[1] = result[2] <=> SameNormalizedTitleAuthor(args[1], args[2]))

\* C6 amended: equal normalized title and author give the same key; the same
\* key gives equal normalized title and author when neither record's
\* normalized title or author contains the separator '|'.
C6_SameKeyIffSamePairNoSeparator ==
    pc = "key_returned" =>
        /\ StartsWith(result[1], KEY_TA) /\ StartsWith(result[2], KEY_TA)
        /\ SameNormalizedTitleAuthor(args[1], args[2]) => result[1] = result[2]
        /\ (result[1] = result[2] /\ NoSeparator(args[1]) /\ NoSeparator(args[2]))
              => SameNormalizedTitleAuthor(args[1], args[2])

\* C6 witness: two records whose raw titles and authors differ got one key
C6_Witness ==
    /\ pc = "key_returned"
    /\ args[1].title # args[2].title
    /\ args[1].author # args[2].author
    /\ NoSeparator(args[1])
    /\ result[1] = result[2]

(***************************************************************************)
(* The normalizers applied twice                                           *)
(***************************************************************************)
\* longest title / author / ISBN string enumerated character by character
MaxNormLen == 6

Strings(chars, n) == UNION {[1..k -> chars] : k \in 0..n}

\* titles: every string over a letter, the two parentheses and the blank, and
\* titles with brackets, a series annotation and the two subtitle patterns
NormTitles ==
    Strings({"a", "(", ")", " "}, MaxNormLen)
        \cup {None,
              <<"A", "b", " ", "(", "S", ",", " ", "#", "1", ")">>,
              <<"A", " ", "[", "x", "]", " ", "[", "y", "]">>,
              <<"A", " ", "(", "x", ")", " ", "[", "y", "]">>,
              <<"A", " ", "[", "y", "]", " ", "(", "x", ")">>,
              <<"A", ":", " ", "A", " ", "N", "o", "v", "e", "l">>,
              <<"A", " ", ":", " ", "a", " ", "n", "o", "v", "e", "l">>,
              <<"A", ":", " ", "B", "o", "o", "k", " ", "2">>}

\* authors: every string over a lower-case letter, an upper-case letter, the
\* comma and the blank, and authors with a parenthetical role
NormAuthors ==
    Strings({"a", "B", ",", " "}, MaxNormLen)
        \cup {None,
              <<"B", "a", " ", "(", "I", ")">>,
              <<"B", "a", ",", " ", "B", " ", "(", "I", ")">>,
              <<"a", ",", " ", "b", " ", "(", "e", ")", ",", " ", "c">>}

\* ISBN cells: a core, as a spreadsheet or a plain export writes it
NormIsbns ==
    {None}
        \cup Strings({"0", "X", "-"}, MaxNormLen)
        \cup {pre \o core \o post :
                 pre \in {<<>>, <<"=", "\"">>, <<" ">>},
                 core \in {ISBN_A, ISBN_B,
                           <<"0","4","3","9","7","0","8","1","9","x">>,
                           <<"0","-","4","3","9","7","0","8","1","8","-","0">>,
                           <<"9","7","8","0","4","3","9","7","0","8","1","8","0">>,
                           <<"9","9","9","9">>,
                           <<"i","s","b","n","0","4","3","9","7","0","8","1","8","0">>},
                 post \in {<<>>, <<"\"">>, <<" ">>, <<".", "0">>}}

NormArgs(fn, val) == [fn |-> fn, val |-> val]

\* the normalizer named fn applied to x
Normalize(fn, x) ==
    CASE fn = "normalize_title_for_dedup" -> normalize_title_for_dedup(x)
      [] fn = "normalize_author" -> normalize_author(x)
      [] fn = "normalize_author_for_dedup" -> normalize_author_for_dedup(x)
      [] fn = "clean_isbn" -> clean_isbn(x)

InitNorm ==
    /\ Idle
    /\ pc = "call_norm"
    /\ args \in {NormArgs("normalize_title_for_dedup", x) : x \in NormTitles}
          \cup {NormArgs("normalize_author", x) : x \in NormAuthors}
          \cup {NormArgs("normalize_author_for_dedup", x) : x \in NormAuthors}
          \cup {NormArgs("clean_isbn", x) : x \in NormIsbns}
    /\ result = <<>>

\* the normalizer applied to its argument
CallNormalizer ==
    /\ pc = "call_norm"
    /\ result' = <<Normalize(args.fn, args.val)>>
    /\ pc' = "norm_returned"
    /\ UNCHANGED <<exclusion_vars, enrich_vars, embedding_vars, exit_status, goodreads_file, kaggle_file, output_file, frames, args>>

\* the normalizer applied to its own result
CallNormalizerAgain ==
    /\ pc = "norm_returned"
    /\ result' = Append(result, Normalize(args.fn, result[1]))
    /\ pc' = "norm_returned_again"
    /\ UNCHANGED <<exclusion_vars, enrich_vars, embedding_vars, exit_status, goodreads_file, kaggle_file, output_file, frames, args>>

NextNorm == CallNormalizer \/ CallNormalizerAgain

SpecNorm == InitNorm /\ [][NextNorm]_vars

\* fn was applied twice
AppliedTwice(fn) == pc = "norm_returned_again" /\ args.fn = fn

\* C11: normalize_title_for_dedup(normalize_title_for_dedup(x)) equals
\* normalize_title_for_dedup(x) for every title x.
C11_TitleIdempotent ==
    AppliedTwice("normalize_title_for_dedup") => result[2] = result[1]

\* C12: normalize_author and normalize_author_for_dedup applied to their own
\* result return that result, for every author string.
C12_AuthorIdempotent ==
    (AppliedTwice("normalize_author") \/ AppliedTwice("normalize_author_for_dedup"))
        => result[2] = result[1]

\* C13: clean_isbn(clean_isbn(x)) equals clean_isbn(x) for every input x, an
\* absent result (None) being mapped to None again.
C13_IsbnIdempotent ==
    AppliedTwice("clean_isbn") => result[2] = result[1]

\* C13 witness: an ISBN written with spreadsheet quoting and a lower-case check
\* character was cleaned to a different, valid ISBN, and cleaned again
C13_Witness ==
    /\ AppliedTwice("clean_isbn")
    /\ args.val # None
    /\ HasChar(args.val, "=")
    /\ HasChar(args.val, "x")
    /\ result[1] # None
    /\ result[1] # args.val
    /\ result[2] = result[1]

\* C13 witness of the absent case: a cell with fewer than 10 characters left
C13_WitnessAbsent ==
    /\ AppliedTwice("clean_isbn")
    /\ args.val # None
    /\ result[1] = None
    /\ result[2] = None

(***************************************************************************)
(* Exclusion Filter: apply_exclusions.py                                   *)
(*                                                                         *)
(* A library record carries the fields the filter and the analytics read:  *)
(* id, title, author, is_read, date_read, my_rating and genres (the parsed *)
(* JSON list).  Ids, reason tags and genre names are plain strings; titles,*)
(* authors and dates are character sequences.                              *)
(***************************************************************************)
Book(id, title, author, is_read, date_read, my_rating, genres) ==
    [id |-> id, title |-> title, author |-> author, is_read |-> is_read,
     date_read |-> date_read, my_rating |-> my_rating, genres |-> genres]

Rules(no_date_read, one_star, unread) ==
    [exclude_no_date_read |-> no_date_read, exclude_one_star |-> one_star,
     exclude_unread |-> unread]

Exclusions(rules, titles, authors, ids) ==
    [rules |-> rules, exclude_titles |-> titles, exclude_authors |-> authors,
     exclude_ids |-> ids]

\* load_exclusions: the config written when EXCLUSIONS_FILE does not exist
default_config == Exclusions(Rules(TRUE, TRUE, FALSE), <<>>, <<>>, <<>>)

\* the second element of should_exclude's result when no rule matches
NO_REASON == "<None>"

\* Python's truth value of a string-valued cell: None and '' are false
Truthy(x) == x # None /\ x # <<>>

\* x in [t.lower() for t in list]
InLowered(x, list) == \E k \in 1..Len(list) : Lower(list[k]) = x

Excluded(reason) == [exclude |-> TRUE, reason |-> reason]

\* mutant: the unread rule tried before the one-star rule
should_exclude_unread_first(book, excl) ==
    IF excl.rules.exclude_no_date_read /\ book.is_read /\ ~Truthy(book.date_read)
    THEN Excluded("no_date_read")
    ELSE IF excl.rules.exclude_unread /\ ~book.is_read
    THEN Excluded("unread")
    ELSE IF excl.rules.exclude_one_star /\ book.my_rating = 1
    THEN Excluded("one_star")
    ELSE IF InLowered(Lower(book.title), excl.exclude_titles)
    THEN Excluded("title_list")
    ELSE IF InLowered(Lower(book.author), excl.exclude_authors)
    THEN Excluded("author_list")
    ELSE IF \E k \in 1..Len(excl.exclude_ids) : excl.exclude_ids[k] = book.id
    THEN Excluded("id_list")
    ELSE [exclude |-> FALSE, reason |-> NO_REASON]

\* should_exclude: (True, tag) of the first rule that matches, else (False, None)
should_exclude(book, excl) ==
    IF excl.rules.exclude_no_date_read /\ book.is_read /\ ~Truthy(book.date_read)
    THEN Excluded("no_date_read")
    ELSE IF excl.rules.exclude_one_star /\ book.my_rating = 1
    THEN Excluded("one_star")
    ELSE IF excl.rules.exclude_unread /\ ~book.is_read
    THEN Excluded("unread")
    ELSE IF InLowered(Lower(book.title), excl.exclude_titles)
    THEN Excluded("title_list")
    ELSE IF InLowered(Lower(book.author), excl.exclude_authors)
    THEN Excluded("author_list")
    ELSE IF \E k \in 1..Len(excl.exclude_ids) : excl.exclude_ids[k] = book.id
    THEN Excluded("id_list")
    ELSE [exclude |-> FALSE, reason |-> NO_REASON]

\* Counter(items): the distinct items in order of first occurrence, each with
\* the number of its occurrences
RECURSIVE Counter(_)
Counter(items) ==
    IF items = <<>> THEN <<>>
    ELSE LET rest == Counter(Sub(items, 1, Len(items) - 1))
             x == items[Len(items)]
         IN  IF \E k \in 1..Len(rest) : rest[k].key = x
             THEN [k \in 1..Len(rest) |->
                      IF rest[k].key = x
                      THEN [key |-> x, count |-> rest[k].count + 1] ELSE rest[k]]
             ELSE Append(rest, [key |-> x, count |-> 1])

\* Counter.get(x, 0)
CountOf(counter, x) ==
    IF \E k \in 1..Len(counter) : counter[k].key = x
    THEN counter[CHOOSE k \in 1..Len(counter) : counter[k].key = x].count
    ELSE 0

\* Counter.most_common(n): by descending count, equal counts in order of first
\* occurrence, the first n
RECURSIVE SortedByCount(_)
SortedByCount(counter) ==
    IF counter = <<>> THEN <<>>
    ELSE LET top == CHOOSE k \in 1..Len(counter) :
                        /\ \A j \in 1..Len(counter) : counter[j].count <= counter[k].count
                        /\ \A j \in 1..(k-1) : counter[j].count < counter[k].count
         IN  <<counter[top]>>
                 \o SortedByCount(Sub(counter, 1, top - 1) \o Sub(counter, top + 1, Len(counter)))

most_common(counter, n) ==
    LET sorted == SortedByCount(counter)
    IN  Sub(sorted, 1, IF Len(sorted) < n THEN Len(sorted) ELSE n)

\* the concatenation of the sequences of a sequence
RECURSIVE Flatten(_)
Flatten(seqs) == IF seqs = <<>> THEN <<>> ELSE Head(seqs) \o Flatten(Tail(seqs))

\* genres[:3]
Top3(genres) == Sub(genres, 1, IF Len(genres) < 3 THEN Len(genres) ELSE 3)

\* date_read[:7].replace('/', '-')
YearMonth(date_read) ==
    LET ym == Sub(date_read, 1, IF Len(date_read) < 7 THEN Len(date_read) ELSE 7)
    IN  [k \in 1..Len(ym) |-> IF ym[k] = "/" THEN "-" ELSE ym[k]]

\* sorted(counter.items()) for the timeline: ascending by year_month; the
\* year_months of the model have one length and differ in one position at most
\* per pair, so the order is by the first differing character
StrLess(a, b) ==
    \E k \in 1..Len(a) :
        /\ k <= Len(b)
        /\ \A j \in 1..(k-1) : a[j] = b[j]
        /\ \E x, y \in 0..9 : /\ <<"0","1","2","3","4","5","6","7","8","9">>[x+1] = a[k]
                              /\ <<"0","1","2","3","4","5","6","7","8","9">>[y+1] = b[k]
                              /\ x < y

RECURSIVE SortedByKey(_)
SortedByKey(counter) ==
    IF counter = <<>> THEN <<>>
    ELSE LET low == CHOOSE k \in 1..Len(counter) :
                        \A j \in 1..Len(counter) : ~StrLess(counter[j].key, counter[k].key)
         IN  <<counter[low]>>
                 \o SortedByKey(Sub(counter, 1, low - 1) \o Sub(counter, low + 1, Len(counter)))

\* recalculate_analytics: every aggregate computed from the list handed in.
\* Of the summary block the counts are modelled; average_rating,
\* coverage_percent, books_with_descriptions and generated_at are left out.
recalculate_analytics(bs) ==
    LET read_books == SelectSeq(bs, LAMBDA b : b.is_read)
        unread_books == SelectSeq(bs, LAMBDA b : ~b.is_read)
        rating_counts == Counter([k \in 1..Len(read_books) |-> read_books[k].my_rating])
        genre_counter ==
            Counter(Flatten([k \in 1..Len(read_books) |-> Top3(read_books[k].genres)]))
        author_counter == Counter([k \in 1..Len(read_books) |-> read_books[k].author])
        dated == SelectSeq(read_books, LAMBDA b : Truthy(b.date_read))
        timeline_counter == Counter([k \in 1..Len(dated) |-> YearMonth(dated[k].date_read)])
    IN  [summary |->
            [total_books |-> Len(bs),
             books_read |-> Len(read_books),
             books_unread |-> Len(unread_books),
             five_star_books |-> Len(SelectSeq(read_books, LAMBDA b : b.my_rating = 5))],
         reading_timeline |-> SortedByKey(timeline_counter),
         genre_breakdown |-> most_common(genre_counter, 15),
         rating_distribution |->
            [k \in 1..6 |-> [key |-> 6 - k, count |-> CountOf(rating_counts, 6 - k)]],
         top_authors |-> most_common(author_counter, 10),
         shelf_summary |-> <<[key |-> "read", count |-> Len(read_books)],
                             [key |-> "unread", count |-> Len(unread_books)]>>]

\* the state of build_base_dataset.py's main() and of the function harness
build_vars == <<goodreads_file, kaggle_file, output_file, frames, args, result,
               exit_status>>

\* most records of a library file
MaxBooks == 3

DATE_A == <<"2", "0", "2", "0", "/", "0", "1", "/", "0", "5">>
DATE_B == <<"2", "0", "2", "0", "/", "0", "1", "/", "2", "0">>
DATE_C == <<"2", "0", "1", "9", "/", "1", "2", "/", "3", "1">>

\* the records a library file is made of
LibraryBooks ==
    {Book("isbn:1", <<"A", "b">>, <<"C", "d">>, TRUE, DATE_A, 5,
          <<"Fantasy", "Classics", "Fiction", "Epic">>),
     Book("gr:2", <<"E", "f">>, <<"C", "d">>, TRUE, None, 4, <<"Fantasy">>),
     Book("gr:3", <<"G", "h">>, <<"I", "j">>, TRUE, DATE_C, 1, <<"Horror", "Fiction">>),
     Book("ta:4", <<"a", "b">>, <<"K", "l">>, FALSE, None, 0, <<"Fantasy">>),
     Book("isbn:5", <<"M", "n">>, <<"I", "J">>, FALSE, None, 1, <<>>),
     Book("gr:6", <<"A", "b">>, <<"C", "d">>, TRUE, <<>>, 1, <<"Fiction", "Epic">>),
     Book("gr:7", <<"O", "p">>, <<"Q", "r">>, TRUE, DATE_B, 0, <<"Epic", "Fantasy">>)}

\* a library lists an id once
LibraryFiles ==
    UNION {{f \in [1..n -> LibraryBooks] :
               \A j, k \in 1..n : j # k => f[j].id # f[k].id} : n \in 0..MaxBooks}

BLOCKLISTS ==
    {[titles |-> <<>>, authors |-> <<>>, ids |-> <<>>],
     [titles |-> <<<<"A", "B">>>>, authors |-> <<>>, ids |-> <<>>],
     [titles |-> <<>>, authors |-> <<<<"i", "J">>, <<"Q", "r">>>>, ids |-> <<"gr:2", "gr:3">>]}

ExclusionConfigs ==
    {Exclusions(Rules(a, b, c), l.titles, l.authors, l.ids) :
        a \in BOOLEAN, b \in BOOLEAN, c \in BOOLEAN, l \in BLOCKLISTS}

\* galaxy_coordinates.json: one point per library record and one point of a
\* record no longer in the library; a point is modelled by its id
GalaxyOf(library) == [k \in 1..Len(library) |-> [id |-> library[k].id]] \o <<[id |-> "gone"]>>

InitExclusions ==
    /\ pc = "load_exclusions"
    /\ BuildIdle
    /\ args = <<>> /\ result = <<>>
    /\ EnrichIdle
    /\ EmbeddingIdle
    /\ run_log = <<>>
    /\ exclusions_file \in {NoFile} \cup {File(c) : c \in ExclusionConfigs}
    /\ library_file \in {NoFile} \cup {File(l) : l \in LibraryFiles}
    /\ galaxy_file \in {NoFile, File(GalaxyOf(library_file.rows))}
    /\ analytics_file \in {NoFile, File(recalculate_analytics(library_file.rows))}
    /\ exclusions = <<>>
    /\ books = <<>>
    /\ excluded_books = <<>>
    /\ filtered_books = <<>>
    /\ exclusion_reasons = <<>>

\* [1/5] load_exclusions: the config of EXCLUSIONS_FILE; without the file the
\* default config, which is written to EXCLUSIONS_FILE
LoadExclusions ==
    /\ pc = "load_exclusions"
    /\ IF exclusions_file.exists
       THEN /\ exclusions' = exclusions_file.rows
            /\ UNCHANGED exclusions_file
       ELSE /\ exclusions' = default_config
            /\ exclusions_file' = File(default_config)
    /\ pc' = "load_library"
    /\ UNCHANGED <<library_file, galaxy_file, analytics_file, books, excluded_books,
                   filtered_books, exclusion_reasons, enrich_vars, embedding_vars,
                   build_vars, run_log>>

\* [2/5] the library is read; open() raises when LIBRARY_FILE does not exist
LoadLibrary ==
    /\ pc = "load_library"
    /\ IF library_file.exists
       THEN books' = library_file.rows /\ pc' = "apply_exclusions"
       ELSE UNCHANGED books /\ pc' = "raised"
    /\ UNCHANGED <<exclusions_file, library_file, galaxy_file, analytics_file,
                   exclusions, excluded_books, filtered_books, exclusion_reasons,
                   enrich_vars, embedding_vars, build_vars, run_log>>

\* [3/5] the loop over books: each record goes to excluded_books, its reason
\* counted, or to filtered_books
ApplyExclusions ==
    /\ pc = "apply_exclusions"
    /\ excluded_books' = SelectSeq(books, LAMBDA b : should_exclude(b, exclusions).exclude)
    /\ filtered_books' = SelectSeq(books, LAMBDA b : ~should_exclude(b, exclusions).exclude)
    /\ exclusion_reasons' =
          Counter([k \in 1..Len(excluded_books') |->
                      should_exclude(excluded_books'[k], exclusions).reason])
    /\ pc' = "save_library"
    /\ UNCHANGED <<exclusions_file, library_file, galaxy_file, analytics_file,
                   exclusions, books, enrich_vars, embedding_vars, build_vars,
                   run_log>>

\* mutant: the loaded library written back
SaveLibraryLoaded ==
    /\ pc = "save_library"
    /\ library_file' = File(books)
    /\ pc' = "filter_galaxy"
    /\ UNCHANGED <<exclusions_file, galaxy_file, analytics_file, exclusions, books,
                   excluded_books, filtered_books, exclusion_reasons, enrich_vars,
                   embedding_vars, build_vars, run_log>>

\* [4/5] the filtered library is written over LIBRARY_FILE
SaveLibrary ==
    /\ pc = "save_library"
    /\ library_file' = File(filtered_books)
    /\ pc' = "filter_galaxy"
    /\ UNCHANGED <<exclusions_file, galaxy_file, analytics_file, exclusions, books,
                   excluded_books, filtered_books, exclusion_reasons, enrich_vars,
                   embedding_vars, build_vars, run_log>>

\* the galaxy points of the kept records are written over GALAXY_FILE; open()
\* raises when GALAXY_FILE does not exist
FilterGalaxy ==
    /\ pc = "filter_galaxy"
    /\ IF galaxy_file.exists
       THEN LET filtered_ids == {filtered_books[k].id : k \in 1..Len(filtered_books)}
            IN  /\ galaxy_file' =
                      File(SelectSeq(galaxy_file.rows, LAMBDA g : g.id \in filtered_ids))
                /\ pc' = "recalculate"
       ELSE UNCHANGED galaxy_file /\ pc' = "raised"
    /\ UNCHANGED <<exclusions_file, library_file, analytics_file, exclusions, books,
                   excluded_books, filtered_books, exclusion_reasons, enrich_vars,
                   embedding_vars, build_vars, run_log>>

\* mutant: the analytics computed from the loaded library
RecalculateAnalyticsOfLoaded ==
    /\ pc = "recalculate"
    /\ analytics_file' = File(recalculate_analytics(books))
    /\ pc' = "exclusions_applied"
    /\ UNCHANGED <<exclusions_file, library_file, galaxy_file, exclusions, books,
                   excluded_books, filtered_books, exclusion_reasons, enrich_vars,
                   embedding_vars, build_vars, run_log>>

\* [5/5] the analytics of the kept records are written over ANALYTICS_FILE;
\* the summary printed after it changes nothing
RecalculateAnalytics ==
    /\ pc = "recalculate"
    /\ analytics_file' = File(recalculate_analytics(filtered_books))
    /\ pc' = "exclusions_applied"
    /\ UNCHANGED <<exclusions_file, library_file, galaxy_file, exclusions, books,
                   excluded_books, filtered_books, exclusion_reasons, enrich_vars,
                   embedding_vars, build_vars, run_log>>

\* most runs of the stage in a row
MaxRuns == 2

\* apply_exclusions.py is started again, over the files the finished run left
RunAgain ==
    /\ pc = "exclusions_applied"
    /\ Len(run_log) + 1 < MaxRuns
    /\ run_log' = Append(run_log, Len(excluded_books))
    /\ exclusions' = <<>>
    /\ books' = <<>>
    /\ excluded_books' = <<>>
    /\ filtered_books' = <<>>
    /\ exclusion_reasons' = <<>>
    /\ pc' = "load_exclusions"
    /\ UNCHANGED <<exclusions_file, library_file, galaxy_file, analytics_file,
                   enrich_vars, embedding_vars, build_vars>>

run_exclusions ==
    \/ LoadExclusions
    \/ LoadLibrary
    \/ ApplyExclusions
    \/ SaveLibrary
    \/ FilterGalaxy
    \/ RecalculateAnalytics
    \/ RunAgain

SpecExclusions == InitExclusions /\ [][run_exclusions]_vars

\* should_exclude on its own: every combination of the fields it reads
ShouldExcludeBooks ==
    {Book(id, t, a, r, d, m, <<>>) :
        id \in {"gr:2", "gr:9"}, t \in {<<"A", "b">>, <<"Z", "z">>},
        a \in {<<"I", "j">>, <<"Z", "z">>}, r \in BOOLEAN,
        d \in {None, <<>>, DATE_A}, m \in {0, 1, 5}}

InitShouldExclude ==
    /\ Idle
    /\ pc = "call_should_exclude"
    /\ args \in {[book |-> b, exclusions |-> c] :
                    b \in ShouldExcludeBooks, c \in ExclusionConfigs}
    /\ result = <<>>

CallShouldExclude ==
    /\ pc = "call_should_exclude"
    /\ result' = should_exclude(args.book, args.exclusions)
    /\ pc' = "should_exclude_returned"
    /\ UNCHANGED <<exclusion_vars, enrich_vars, embedding_vars, exit_status, goodreads_file, kaggle_file,
                   output_file, frames, args>>

SpecShouldExclude == InitShouldExclude /\ [][CallShouldExclude]_vars

RULE_ORDER == <<"no_date_read", "one_star", "unread", "title_list", "author_list", "id_list">>

\* the rule with the given tag applies to the record
RuleMatches(tag, book, excl) ==
    CASE tag = "no_date_read" ->
            excl.rules.exclude_no_date_read /\ book.is_read /\ book.date_read \in {None, <<>>}
      [] tag = "one_star" -> excl.rules.exclude_one_star /\ book.my_rating = 1
      [] tag = "unread" -> excl.rules.exclude_unread /\ ~book.is_read
      [] tag = "title_list" ->
            \E k \in 1..Len(excl.exclude_titles) : Lower(excl.exclude_titles[k]) = Lower(book.title)
      [] tag = "author_list" ->
            \E k \in 1..Len(excl.exclude_authors) :
                Lower(excl.exclude_authors[k]) = Lower(book.author)
      [] tag = "id_list" -> \E k \in 1..Len(excl.exclude_ids) : excl.exclude_ids[k] = book.id

MatchingRules(book, excl) == {k \in 1..6 : RuleMatches(RULE_ORDER[k], book, excl)}

\* C14: should_exclude returns the tag of the first rule, in the order
\* no-date-read, one-star, unread, title list, author list, id list, that
\* matches the record; the six tags are distinct; a record matching no rule is
\* kept with no reason.
C14_FirstMatchWins ==
    pc = "should_exclude_returned" =>
        LET m == MatchingRules(args.book, args.exclusions)
        IN  /\ m = {} => result = [exclude |-> FALSE, reason |-> NO_REASON]
            /\ m # {} =>
                  result = [exclude |-> TRUE,
                            reason |-> RULE_ORDER[CHOOSE k \in m : \A j \in m : k <= j]]
            /\ \A j, k \in 1..6 : j # k => RULE_ORDER[j] # RULE_ORDER[k]

\* C14 witness: an unread one-star record on the id list, with the one-star
\* and the unread rule on, was excluded as one_star
C14_Witness ==
    /\ pc = "should_exclude_returned"
    /\ {2, 3, 6} \subseteq MatchingRules(args.book, args.exclusions)
    /\ result = [exclude |-> TRUE, reason |-> "one_star"]

\* the sum of the counts of a list of buckets
RECURSIVE SumCounts(_)
SumCounts(buckets) ==
    IF buckets = <<>> THEN 0 ELSE Head(buckets).count + SumCounts(Tail(buckets))

\* the records that survived: what run_exclusions wrote to LIBRARY_FILE
Surviving == library_file.rows

SurvivingRead == SelectSeq(Surviving, LAMBDA b : b.is_read)

HasGenre(b, g) == \E k \in 1..Len(Top3(b.genres)) : b.genres[k] = g

ExclusionsApplied == pc = "exclusions_applied"

\* C15: in the analytics written after filtering, the shelf_summary counts sum
\* to the number of surviving records, and every genre_breakdown and
\* rating_distribution bucket holds the number of surviving read records of
\* that genre or rating, so that no excluded record is counted anywhere.
C15_AnalyticsOfSurvivors ==
    ExclusionsApplied =>
        LET a == analytics_file.rows
        IN  /\ Surviving = filtered_books
            /\ Len(books) = Len(filtered_books) + Len(excluded_books)
            /\ SumCounts(a.shelf_summary) = Len(Surviving)
            /\ \A k \in 1..Len(a.genre_breakdown) :
                  a.genre_breakdown[k].count =
                     Len(SelectSeq(SurvivingRead,
                                   LAMBDA b : HasGenre(b, a.genre_breakdown[k].key)))
            /\ \A b \in Range(SurvivingRead) : \A g \in Range(Top3(b.genres)) :
                  \E k \in 1..Len(a.genre_breakdown) : a.genre_breakdown[k].key = g
            /\ \A k \in 1..Len(a.rating_distribution) :
                  a.rating_distribution[k].count =
                     Len(SelectSeq(SurvivingRead,
                                   LAMBDA b : b.my_rating = a.rating_distribution[k].key))

\* C15 witness: a read record was excluded whose rating and one of whose
\* genres a surviving read record has too
C15_Witness ==
    /\ ExclusionsApplied
    /\ \E e \in Range(excluded_books) : \E b \in Range(SurvivingRead) :
          /\ e.is_read
          /\ e.my_rating = b.my_rating
          /\ \E g \in Range(Top3(e.genres)) : HasGenre(b, g)

(***************************************************************************)
(* Enrichment: enrich_books.py                                             *)
(*                                                                         *)
(* The two ISBN lookups and the cover probe are the environment: each call *)
(* of enrich_one meets one of the answers listed in ServiceAnswers.  Book  *)
(* keys, source tags and error texts are plain strings; ISBNs,             *)
(* descriptions and cover URLs are character sequences.                    *)
(***************************************************************************)
\* the length below which a description counts as missing (is_missing_desc,
\* mask_desc)
MIN_DESCRIPTION_LEN == 80

\* most rows of a queue file
MaxQueue == 2

\* None in a field that holds a tag
NO_SOURCE == "<None>"

\* clean_isbn of enrich_books.py: strip, drop =" " =, keep 0-9 X x, uppercase
\* (no minimum length; a missing cell is '')
clean_isbn_enrich(isbn) ==
    LET s0 == IF isbn = None THEN <<>> ELSE Strip(isbn)
        s1 == ReplaceLit(s0, 1, <<"=", "\"">>, <<>>)
        s2 == ReplaceLit(s1, 1, <<"\"">>, <<>>)
        s3 == ReplaceLit(s2, 1, <<"=">>, <<>>)
    IN  Upper(Only(s3, DIGITS \cup {"X", "x"}))

\* what the services hold for an ISBN
GOOGLE_DESCRIPTION == Rep("g", MIN_DESCRIPTION_LEN)
OPENLIB_DESCRIPTION == Rep("o", MIN_DESCRIPTION_LEN + 1)
GOOGLE_THUMBNAIL == <<"g", "t">>
OPENLIB_COVER == <<"o", "l">>

\* google_lookup: "error" when http_get_json raises, "none" when there are no
\* items, else the volume: with a description and a thumbnail ("data"), or
\* with neither ("bare")
GOOGLE_ANSWERS == {"error", "none", "data", "bare"}

\* openlibrary_lookup: "error" when http_get_json raises, "none" when the
\* bibkey is not in the answer, else the entry ("data")
OPENLIB_ANSWERS == {"error", "none", "data"}

ServiceAnswers ==
    {[google |-> g, openlibrary |-> o, cover_exists |-> c] :
        g \in GOOGLE_ANSWERS, o \in OPENLIB_ANSWERS, c \in BOOLEAN}

Payload(isbn, error, description, description_source, categories_raw, subjects_raw,
        cover_image_url, cover_source, google, openlibrary) ==
    [isbn |-> isbn, error |-> error, description |-> description,
     description_source |-> description_source, categories_raw |-> categories_raw,
     subjects_raw |-> subjects_raw, cover_image_url |-> cover_image_url,
     cover_source |-> cover_source, google |-> google, openlibrary |-> openlibrary]

\* the payload main() records when enrich_one raised
ErrorPayload(isbn, error) ==
    Payload(isbn, error, None, NO_SOURCE, None, None, None, NO_SOURCE, FALSE, FALSE)

\* enrich_one: the payload built from the two lookups and the cover probe, or
\* the exception of the first lookup that raises (google_lookup is called
\* first; nothing in enrich_one catches)
enrich_one(isbn, answer) ==
    IF answer.google = "error"
    THEN [raised |-> TRUE, value |-> "google_lookup: HTTPError"]
    ELSE IF answer.openlibrary = "error"
    THEN [raised |-> TRUE, value |-> "openlibrary_lookup: HTTPError"]
    ELSE
      LET g == answer.google # "none"
          ol == answer.openlibrary # "none"
          g_description == IF answer.google = "data" THEN GOOGLE_DESCRIPTION ELSE None
          desc == IF g /\ Truthy(g_description) THEN g_description
                  ELSE IF ol THEN OPENLIB_DESCRIPTION ELSE None
          desc_source == IF g /\ Truthy(g_description) THEN "google_books"
                         ELSE IF ol THEN "open_library" ELSE NO_SOURCE
          thumbnail == IF answer.google = "data" THEN GOOGLE_THUMBNAIL ELSE None
          cover_url == IF answer.cover_exists THEN OPENLIB_COVER
                       ELSE IF g THEN thumbnail ELSE None
          cover_source == IF answer.cover_exists THEN "open_library_covers"
                          ELSE IF g /\ Truthy(thumbnail) THEN "google_books"
                          ELSE NO_SOURCE
      IN  [raised |-> FALSE,
           value |-> Payload(isbn, "", desc, desc_source,
                             IF g THEN <<"Fiction">> ELSE None,
                             IF ol THEN <<"Novels">> ELSE None,
                             cover_url, cover_source, g, ol)]

\* a dict with key k set to v
Put(d, k, v) == [x \in DOMAIN d \cup {k} |-> IF x = k THEN v ELSE d[x]]

\* a file whose JSON text is complete, and one that was opened for writing
\* and holds none or a part of its text
CompleteFile(rows) == [exists |-> TRUE, rows |-> rows, complete |-> TRUE]
PartialFile == [exists |-> TRUE, rows |-> <<>>, complete |-> FALSE]

QueueRow(book_key, isbn) == [book_key |-> book_key, isbn |-> isbn]

\* the rows a queue file is made of: two rows with one ISBN written in two
\* ways, a row without ISBN, a row with another ISBN
QueueRowsPool ==
    {QueueRow("k1", Excel(ISBN_A)),
     QueueRow("k2", <<"0","-","4","3","9","7","0","8","1","8","-","0">>),
     QueueRow("k3", None),
     QueueRow("k4", ISBN_B)}

QueueFiles ==
    UNION {{f \in [1..n -> QueueRowsPool] : \A j, k \in 1..n : j # k => f[j] # f[k]} :
              n \in 0..MaxQueue}

\* the cache an earlier run left: one entry, for ISBN_B
OldCache ==
    [x \in {ISBN_B} |->
        Payload(ISBN_B, "", Rep("p", MIN_DESCRIPTION_LEN), "google_books", <<"Poetry">>,
                None, <<"p", "c">>, "google_books", TRUE, FALSE)]

\* the cap prepare_embedding_text puts on the description
DESCRIPTION_EMBEDDING_MAX_CHARS == 2000

\* f"{x}" of a cell: NaN is printed as nan
Format(x) == IF x = None THEN <<"n", "a", "n">> ELSE x

\* sep.join(parts)
RECURSIVE Join(_, _)
Join(parts, sep) ==
    IF parts = <<>> THEN <<>>
    ELSE IF Len(parts) = 1 THEN parts[1]
    ELSE parts[1] \o sep \o Join(Tail(parts), sep)

\* prepare_embedding_text: the labelled title, author, genres and (capped)
\* description that are not empty, joined by " | "
prepare_embedding_text(title, author, description, genres) ==
    LET capped == IF Len(description) > DESCRIPTION_EMBEDDING_MAX_CHARS
                  THEN SubSeq(description, 1, DESCRIPTION_EMBEDDING_MAX_CHARS)
                          \o <<".", ".", ".">>
                  ELSE description
        parts ==
            (IF title # <<>>
             THEN <<<<"T","i","t","l","e",":"," ">> \o Format(title)>> ELSE <<>>)
            \o (IF author # <<>>
                THEN <<<<"A","u","t","h","o","r",":"," ">> \o Format(author)>> ELSE <<>>)
            \o (IF genres # <<>>
                THEN <<<<"G","e","n","r","e","s",":"," ">> \o genres>> ELSE <<>>)
            \o (IF description # <<>>
                THEN <<<<"D","e","s","c","r","i","p","t","i","o","n",":"," ">> \o capped>>
                ELSE <<>>)
    IN  Join(parts, <<" ", "|", " ">>)

\* cell texts pd.read_csv reads as a missing value (those in reach of the
\* records below, of the default na_values)
NA_VALUES == {<<>>, <<"N", "/", "A">>, <<"N", "A">>, <<"n", "u", "l", "l">>}

\* pd.read_csv on a text cell
read_csv_cell(x) == IF x = None \/ x \in NA_VALUES THEN None ELSE x

\* to_csv on a text cell: a missing value is written as the empty text
to_csv_cell(x) == IF x = None THEN <<>> ELSE x

\* title and author of the book records
BOOK_TITLE == <<"D", "u", "n", "e">>

BOOK_AUTHOR == <<"F", "H">>

\* a record of the books file, as the base build writes it: description_clean
\* is the cleaned description_raw and description_for_embedding is prepared
\* from it
BookRow(book_key, description_raw, cover_image_url) ==
    [book_key |-> book_key, title |-> BOOK_TITLE,
     description_raw |-> description_raw,
     cover_image_url |-> cover_image_url,
     description_clean |-> clean_description(description_raw),
     description_for_embedding |->
        prepare_embedding_text(BOOK_TITLE, BOOK_AUTHOR,
                               clean_description(description_raw), <<>>)]

\* description_raw and cover_image_url cells of a book record: missing, empty,
\* blank, one character short of MIN_DESCRIPTION_LEN, long enough, and long
\* enough only with its surrounding blanks
BOOK_CELLS ==
    <<[description_raw |-> None, cover_image_url |-> None],
      [description_raw |-> Rep("d", MIN_DESCRIPTION_LEN), cover_image_url |-> <<"c">>],
      [description_raw |-> Rep("d", MIN_DESCRIPTION_LEN - 1) \o <<" ">>,
       cover_image_url |-> <<" ">>],
      [description_raw |-> Rep("d", MIN_DESCRIPTION_LEN - 1), cover_image_url |-> <<>>],
      [description_raw |-> <<" ">> \o Rep("d", MIN_DESCRIPTION_LEN),
       cover_image_url |-> <<"c">>],
      [description_raw |-> <<>>, cover_image_url |-> <<"c">>]>>

BOOK_KEYS == <<"k1", "k2", "k4">>

\* descriptions pd.read_csv reads as missing values
NA_DESCRIPTIONS == <<<<"N", "/", "A">>, <<"n", "u", "l", "l">>, <<"N", "A">>>>

\* a books file: one record per key, the cells taken in rotation
BooksFiles ==
    {[k \in 1..3 |-> BookRow(BOOK_KEYS[k],
                             BOOK_CELLS[((k + a) % 6) + 1].description_raw,
                             BOOK_CELLS[((k + a) % 6) + 1].cover_image_url)] :
        a \in {0, 3}}
    \cup {[k \in 1..3 |-> BookRow(BOOK_KEYS[k], NA_DESCRIPTIONS[k], None)]}

InitEnrich ==
    /\ pc = "load_cache"
    /\ BuildIdle
    /\ ExclusionsIdle
    /\ EmbeddingIdle
    /\ args = <<>> /\ result = <<>>
    /\ books = <<>>
    /\ books_file \in {File(b) : b \in BooksFiles}
    /\ cache_file \in {NoFile, CompleteFile(OldCache)}
    /\ tmp_file = NoFile
    /\ queue_file \in {File(q) : q \in QueueFiles}
    /\ out_file = NoFile
    /\ cache = <<>>
    /\ queue_rows = <<>>
    /\ results = <<>>
    /\ queue_i = 0
    /\ lookups = <<>>

\* load_cache, and the queue read
LoadCache ==
    /\ pc = "load_cache"
    /\ cache' = IF cache_file.exists THEN cache_file.rows ELSE <<>>
    /\ queue_rows' = queue_file.rows
    /\ results' = <<>>
    /\ queue_i' = 1
    /\ pc' = "loop"
    /\ UNCHANGED <<books_file, cache_file, tmp_file, queue_file, out_file, lookups,
                   books, build_vars, embedding_vars, run_log, exclusions_file,
                   library_file, galaxy_file,
                   analytics_file, exclusions, excluded_books, filtered_books,
                   exclusion_reasons>>

\* mutant: the cache is never consulted
CacheHitNever(isbn) == FALSE

\* isbn in cache
CacheHit(isbn) == isbn \in DOMAIN cache

\* mutant: the exception of enrich_one leaves main()
NotCaught(book_key, isbn, e) ==
    /\ pc' = "raised"
    /\ UNCHANGED <<results, queue_i>>

\* except Exception as e: the error payload is recorded, the loop goes on
Caught(book_key, isbn, e) ==
    /\ results' = Put(results, book_key, ErrorPayload(isbn, e))
    /\ pc' = "loop"
    /\ queue_i' = queue_i + 1

others_but_enrich == <<build_vars, embedding_vars, run_log, exclusions_file,
                       library_file, galaxy_file,
                       analytics_file, exclusions, excluded_books, filtered_books,
                       exclusion_reasons>>

\* one iteration of the enrichment loop, up to the call of save_cache
EnrichRow ==
    /\ pc = "loop"
    /\ queue_i <= Len(queue_rows)
    /\ LET row == queue_rows[queue_i]
           book_key == row.book_key
           isbn == clean_isbn_enrich(row.isbn)
       IN  IF isbn = <<>>
           THEN /\ queue_i' = queue_i + 1
                /\ UNCHANGED <<pc, cache, results, lookups>>
           ELSE IF CacheHit(isbn)
           THEN /\ results' = Put(results, book_key, cache[isbn])
                /\ queue_i' = queue_i + 1
                /\ UNCHANGED <<pc, cache, lookups>>
           ELSE \E answer \in ServiceAnswers :
                  LET enriched == enrich_one(isbn, answer)
                  IN  /\ lookups' = Append(lookups,
                                           [row |-> queue_i, isbn |-> isbn,
                                            google |-> answer.google,
                                            openlibrary |-> answer.openlibrary,
                                            raised |-> enriched.raised])
                      /\ IF enriched.raised
                         THEN /\ Caught(book_key, isbn, enriched.value)
                              /\ UNCHANGED cache
                         ELSE /\ cache' = Put(cache, isbn, enriched.value)
                              /\ results' = Put(results, book_key, enriched.value)
                              /\ pc' = "save_cache_open"
                              /\ UNCHANGED queue_i
    /\ UNCHANGED <<books_file, cache_file, tmp_file, queue_file, out_file, queue_rows,
                   books, others_but_enrich>>

\* mutant: the cache written in place
SaveCacheOpenInPlace ==
    /\ pc = "save_cache_open"
    /\ cache_file' = PartialFile
    /\ pc' = "save_cache_write"
    /\ UNCHANGED <<books_file, tmp_file, queue_file, out_file, cache, queue_rows,
                   results, queue_i, lookups, books, others_but_enrich>>

\* save_cache: open(tmp, "w") creates or truncates the temporary file
SaveCacheOpen ==
    /\ pc = "save_cache_open"
    /\ tmp_file' = PartialFile
    /\ pc' = "save_cache_write"
    /\ UNCHANGED <<books_file, cache_file, queue_file, out_file, cache, queue_rows,
                   results, queue_i, lookups, books, others_but_enrich>>

\* mutant: the entries of the cache file are dumped, not those of the cache
SaveCacheWriteOld ==
    /\ pc = "save_cache_write"
    /\ tmp_file' = CompleteFile(IF cache_file.exists THEN cache_file.rows ELSE <<>>)
    /\ pc' = "save_cache_replace"
    /\ UNCHANGED <<books_file, cache_file, queue_file, out_file, cache, queue_rows,
                   results, queue_i, lookups, books, others_but_enrich>>

\* save_cache: json.dump and the close of the temporary file
SaveCacheWrite ==
    /\ pc = "save_cache_write"
    /\ tmp_file' = CompleteFile(cache)
    /\ pc' = "save_cache_replace"
    /\ UNCHANGED <<books_file, cache_file, queue_file, out_file, cache, queue_rows,
                   results, queue_i, lookups, books, others_but_enrich>>

\* save_cache: os.replace(tmp, path); then the sleep and the next row
SaveCacheReplace ==
    /\ pc = "save_cache_replace"
    /\ cache_file' = tmp_file
    /\ tmp_file' = NoFile
    /\ pc' = "loop"
    /\ queue_i' = queue_i + 1
    /\ UNCHANGED <<books_file, queue_file, out_file, cache, queue_rows, results,
                   lookups, books, others_but_enrich>>

\* the process is killed inside save_cache
Crash ==
    /\ pc \in {"save_cache_open", "save_cache_write", "save_cache_replace"}
    /\ pc' = "crashed"
    /\ UNCHANGED <<enrich_vars, books, others_but_enrich>>

\* mutant: every description counts as missing
is_missing_desc_always(x) == TRUE

\* is_missing_desc: fewer than MIN_DESCRIPTION_LEN characters once stripped
is_missing_desc(x) ==
    LET str == IF x = None THEN <<>> ELSE x
    IN  Len(Strip(str)) < MIN_DESCRIPTION_LEN

\* is_missing_cover: nothing left once stripped
is_missing_cover(x) ==
    LET str == IF x = None THEN <<>> ELSE x
    IN  Len(Strip(str)) = 0

\* x.fillna("") / x or ""
OrEmpty(x) == IF x = None THEN <<>> ELSE x

\* mutant: description_clean is made again from the description_raw written;
\* one row of merged after the masks were applied: the book record, left-joined
\* with the payload of its book_key, description and cover filled where missing
MergedRowRecleaned(b) ==
    LET has == b.book_key \in DOMAIN results
        p == results[b.book_key]
        description_new == IF has THEN p.description ELSE None
        cover_image_url_new == IF has THEN OrEmpty(p.cover_image_url) ELSE None
        mask_desc == /\ is_missing_desc(b.description_raw)
                     /\ Len(OrEmpty(description_new)) >= MIN_DESCRIPTION_LEN
        mask_cover == /\ is_missing_cover(b.cover_image_url)
                      /\ Len(OrEmpty(cover_image_url_new)) > 0
    IN  [book_key |-> b.book_key,
         title |-> to_csv_cell(read_csv_cell(b.title)),
         description_clean |->
            clean_description(IF mask_desc THEN description_new ELSE b.description_raw),
         description_for_embedding |->
            to_csv_cell(read_csv_cell(b.description_for_embedding)),
         description_raw |-> IF mask_desc THEN description_new ELSE b.description_raw,
         description_source |->
            IF mask_desc /\ p.description_source # NO_SOURCE
            THEN p.description_source ELSE "",
         cover_image_url |-> IF mask_cover THEN cover_image_url_new ELSE b.cover_image_url,
         cover_image_source |->
            IF mask_cover /\ p.cover_source # NO_SOURCE THEN p.cover_source ELSE "",
         categories_raw |-> IF has THEN OrEmpty(p.categories_raw) ELSE <<>>,
         subjects_raw |-> IF has THEN OrEmpty(p.subjects_raw) ELSE <<>>,
         error |-> IF has THEN p.error ELSE ""]

\* one row of merged after the masks were applied: the book record, left-joined
\* with the payload of its book_key, description and cover filled where missing
MergedRow(b) ==
    LET has == b.book_key \in DOMAIN results
        p == results[b.book_key]
        description_new == IF has THEN p.description ELSE None
        cover_image_url_new == IF has THEN OrEmpty(p.cover_image_url) ELSE None
        mask_desc == /\ is_missing_desc(b.description_raw)
                     /\ Len(OrEmpty(description_new)) >= MIN_DESCRIPTION_LEN
        mask_cover == /\ is_missing_cover(b.cover_image_url)
                      /\ Len(OrEmpty(cover_image_url_new)) > 0
    IN  [book_key |-> b.book_key,
         title |-> to_csv_cell(read_csv_cell(b.title)),
         description_clean |-> to_csv_cell(read_csv_cell(b.description_clean)),
         description_for_embedding |->
            to_csv_cell(read_csv_cell(b.description_for_embedding)),
         description_raw |-> IF mask_desc THEN description_new ELSE b.description_raw,
         description_source |->
            IF mask_desc /\ p.description_source # NO_SOURCE
            THEN p.description_source ELSE "",
         cover_image_url |-> IF mask_cover THEN cover_image_url_new ELSE b.cover_image_url,
         cover_image_source |->
            IF mask_cover /\ p.cover_source # NO_SOURCE THEN p.cover_source ELSE "",
         categories_raw |-> IF has THEN OrEmpty(p.categories_raw) ELSE <<>>,
         subjects_raw |-> IF has THEN OrEmpty(p.subjects_raw) ELSE <<>>,
         error |-> IF has THEN p.error ELSE ""]

\* after the loop: the book records are read, merged with the results and
\* written to args.out.  Without any result the frame of results has no
\* book_key column and the merge raises.
MergeBack ==
    /\ pc = "loop"
    /\ queue_i > Len(queue_rows)
    /\ books' = books_file.rows
    /\ IF results = <<>>
       THEN pc' = "raised" /\ UNCHANGED out_file
       ELSE /\ out_file' = File([k \in 1..Len(books_file.rows) |->
                                    MergedRow(books_file.rows[k])])
            /\ pc' = "enriched"
    /\ UNCHANGED <<books_file, cache_file, tmp_file, queue_file, cache, queue_rows,
                   results, queue_i, lookups, others_but_enrich>>

NextEnrich ==
    \/ LoadCache
    \/ EnrichRow
    \/ SaveCacheOpen
    \/ SaveCacheWrite
    \/ SaveCacheReplace
    \/ Crash
    \/ MergeBack

SpecEnrich == InitEnrich /\ [][NextEnrich]_vars

\* the row the loop is at
AtRow == pc = "loop" /\ queue_i <= Len(queue_rows)

RowIsbn(r) == clean_isbn_enrich(queue_rows[r].isbn)

\* C16: when the normalized ISBN of the row the loop processes is a key of the
\* cache, the step performs no external lookup and the row's result is the
\* cached entry.
C16_CacheHitSkipsLookup ==
    [][(/\ AtRow
        /\ queue_i' = queue_i + 1
        /\ RowIsbn(queue_i) # <<>>
        /\ RowIsbn(queue_i) \in DOMAIN cache)
          => /\ lookups' = lookups
             /\ cache' = cache
             /\ results'[queue_rows[queue_i].book_key] = cache[RowIsbn(queue_i)]]_vars

\* C16 witness: two rows with one ISBN that was not in the cache file were
\* processed with one lookup, and both have the same result
C16_Witness ==
    /\ pc = "loop"
    /\ queue_i = 3
    /\ RowIsbn(1) = RowIsbn(2)
    /\ ~cache_file.exists \/ RowIsbn(1) \notin DOMAIN OldCache
    /\ Len(lookups) = 1
    /\ ~lookups[1].raised
    /\ results[queue_rows[1].book_key] = results[queue_rows[2].book_key]

\* the in-memory cache without the entry of the last successful lookup: what
\* the last completed save_cache, or load_cache, left on disk
PreviousCache ==
    LET ok == {k \in 1..Len(lookups) : ~lookups[k].raised}
        last == CHOOSE k \in ok : \A j \in ok : j <= k
    IN  IF ok = {} THEN cache
        ELSE [x \in DOMAIN cache \ {lookups[last].isbn} |-> cache[x]]

\* C17: whatever step save_cache is at, and after a crash between any two of
\* its steps, the file at the cache path is absent (when there was no cache
\* before) or holds the complete previous cache or the complete new cache.
C17_CacheFileNeverPartial ==
    pc # "load_cache" =>
        \/ cache_file = CompleteFile(cache)
        \/ cache_file = CompleteFile(PreviousCache)
        \/ cache_file = NoFile /\ PreviousCache = <<>>

\* C17 witness: a crash after the temporary file was opened and before it was
\* written: the temporary file is partial, the cache file holds the previous
\* cache
C17_Witness ==
    /\ pc = "crashed"
    /\ tmp_file = PartialFile
    /\ cache_file = CompleteFile(PreviousCache)
    /\ PreviousCache # cache

FailedLookups == {k \in 1..Len(lookups) : lookups[k].raised}

\* C18: a lookup that raised never ends main(): its row has an error payload
\* under its book_key, the loop went on to the next row, and a run that ends
\* after a failure ends with its output written and a result for every row
\* that has an ISBN.
C18_FailureNeverAborts ==
    /\ FailedLookups # {} => pc # "raised"
    /\ \A k \in FailedLookups :
          LET book_key == queue_rows[lookups[k].row].book_key
          IN  /\ queue_i > lookups[k].row
              /\ book_key \in DOMAIN results
              /\ results[book_key].error # ""
              /\ results[book_key].isbn = lookups[k].isbn
    /\ (pc = "enriched" /\ FailedLookups # {}) =>
          /\ out_file.exists
          /\ Len(out_file.rows) = Len(books)
          /\ \A r \in 1..Len(queue_rows) :
                RowIsbn(r) # <<>> => queue_rows[r].book_key \in DOMAIN results

\* C18 witness: the lookup of the first row failed, the lookup of the second
\* row succeeded, and the output was written
C18_Witness ==
    /\ pc = "enriched"
    /\ Len(lookups) = 2
    /\ lookups[1].raised
    /\ ~lookups[2].raised
    /\ results[queue_rows[2].book_key].error = ""
    /\ out_file.exists

\* C19: when one of the two lookups raises and the other has data, the row's
\* result is an enrichment result with the other lookup's data, not an error.
C19_OneLookupFailureTolerated ==
    \A k \in 1..Len(lookups) :
        LET e == lookups[k]
            payload == results[queue_rows[e.row].book_key]
        IN  (\/ e.google = "error" /\ e.openlibrary = "data"
             \/ e.openlibrary = "error" /\ e.google = "data")
               => /\ ~e.raised
                  /\ payload.error = ""
                  /\ payload.description # None

BeforeMerge(k) == books[k]
AfterMerge(k) == out_file.rows[k]

Merged == pc = "enriched"

\* C20 as stated: a description_raw of at least 80 characters and a non-empty
\* cover_image_url are the same before and after the merge; a description is
\* replaced only when it was missing or shorter than 80 characters, a cover
\* only when it was empty.
C20_PopulatedNeverOverwritten ==
    Merged =>
        \A k \in 1..Len(books) :
            LET b == BeforeMerge(k)
                a == AfterMerge(k)
            IN  /\ Len(OrEmpty(b.description_raw)) >= MIN_DESCRIPTION_LEN
                      => a.description_raw = b.description_raw
                /\ OrEmpty(b.cover_image_url) # <<>>
                      => a.cover_image_url = b.cover_image_url
                /\ a.description_raw # b.description_raw
                      => Len(OrEmpty(b.description_raw)) < MIN_DESCRIPTION_LEN
                /\ a.cover_image_url # b.cover_image_url
                      => OrEmpty(b.cover_image_url) = <<>>

\* C20 amended: lengths are taken after stripping surrounding whitespace: a
\* description_raw with at least 80 characters once stripped and a
\* cover_image_url that is not blank are the same before and after the merge;
\* a description is replaced only when it was missing or had fewer than 80
\* characters once stripped, a cover only when it was missing or blank.
C20_PopulatedStrippedNeverOverwritten ==
    Merged =>
        \A k \in 1..Len(books) :
            LET b == BeforeMerge(k)
                a == AfterMerge(k)
            IN  /\ a.book_key = b.book_key
                /\ Len(Strip(OrEmpty(b.description_raw))) >= MIN_DESCRIPTION_LEN
                      => a.description_raw = b.description_raw
                /\ Strip(OrEmpty(b.cover_image_url)) # <<>>
                      => a.cover_image_url = b.cover_image_url
                /\ a.description_raw # b.description_raw
                      => Len(Strip(OrEmpty(b.description_raw))) < MIN_DESCRIPTION_LEN
                /\ a.cover_image_url # b.cover_image_url
                      => Strip(OrEmpty(b.cover_image_url)) = <<>>

\* C20 witness: the results offer a description and a cover for a record that
\* has both, which keeps them, and for a record that lacks both, which gets
\* them
C20_Witness ==
    /\ Merged
    /\ \E k, j \in 1..Len(books) :
          /\ BeforeMerge(k).book_key \in DOMAIN results
          /\ Len(OrEmpty(results[BeforeMerge(k).book_key].description)) >= MIN_DESCRIPTION_LEN
          /\ Truthy(results[BeforeMerge(k).book_key].cover_image_url)
          /\ Len(Strip(OrEmpty(BeforeMerge(k).description_raw))) >= MIN_DESCRIPTION_LEN
          /\ Strip(OrEmpty(BeforeMerge(k).cover_image_url)) # <<>>
          /\ AfterMerge(k).description_raw = BeforeMerge(k).description_raw
          /\ AfterMerge(k).cover_image_url = BeforeMerge(k).cover_image_url
          /\ AfterMerge(j).description_raw # BeforeMerge(j).description_raw
          /\ AfterMerge(j).cover_image_url # BeforeMerge(j).cover_image_url

(***************************************************************************)
(* Embedding generation: run_pipeline() of generate_embeddings_v2.py, and  *)
(* the embedding text build_base_dataset.py prepares for it.  The sentence *)
(* transformer is the environment: encode gives every text a vector.       *)
(***************************************************************************)
\* the length the text of embedding_col has to exceed in run_pipeline's mask
MIN_EMBEDDING_TEXT_LEN == 50

\* most records of the file run_pipeline reads
MaxRecords == 2

\* a record of the book records file as the base build writes its text
\* columns: description_for_embedding is made of title, author,
\* description_clean and the joined genres
EnrichedRecord(book_key, title, author, description_clean, genres) ==
    [book_key |-> book_key, title |-> title, author |-> author,
     description_clean |-> description_clean,
     description_for_embedding |->
        prepare_embedding_text(title, author, description_clean, genres)]

\* the same record in a file that has no description_for_embedding column
WithoutEmbeddingText(r) ==
    [book_key |-> r.book_key, title |-> r.title, author |-> r.author,
     description_clean |-> r.description_clean]

\* records of INPUT_FILE: no description and a long title and author; no
\* description and a short title and author; a description of
\* MIN_DESCRIPTION_LENGTH characters; a description of 20 characters; nothing
\* at all
EmbeddingInput ==
    {EnrichedRecord("k1", Rep("T", 20), Rep("A", 20), <<>>, <<>>),
     EnrichedRecord("k2", <<"A", "b">>, <<"C", "d">>, <<>>, <<>>),
     EnrichedRecord("k3", <<"A", "b">>, <<"C", "d">>,
                    Rep("d", MIN_DESCRIPTION_LENGTH), <<"F">>),
     EnrichedRecord("k4", <<"A", "b">>, <<"C", "d">>, Rep("d", 20), <<>>),
     EnrichedRecord("k5", <<>>, <<>>, <<>>, <<>>)}

\* records of an INPUT_FILE without the description_for_embedding column: a
\* description of MIN_EMBEDDING_TEXT_LEN characters, one more, none
EmbeddingInputOld ==
    {WithoutEmbeddingText(EnrichedRecord("k6", <<"A", "b">>, <<"C", "d">>,
                                         Rep("d", MIN_EMBEDDING_TEXT_LEN), <<>>)),
     WithoutEmbeddingText(EnrichedRecord("k7", <<"A", "b">>, <<"C", "d">>,
                                         Rep("d", MIN_EMBEDDING_TEXT_LEN + 1), <<>>)),
     WithoutEmbeddingText(EnrichedRecord("k8", Rep("T", 20), Rep("A", 20), <<>>, <<>>))}

\* a file lists a book_key once, and every row has the columns of the file
EmbeddingInputFiles ==
    UNION {{f \in [1..n -> EmbeddingInput] \cup [1..n -> EmbeddingInputOld] :
               \A j, k \in 1..n : j # k => f[j] # f[k]} : n \in 0..MaxRecords}

\* the library an earlier run of the stage wrote
PreviousLibrary ==
    <<[id |-> "k0", title |-> <<"O", "l", "d">>, author |-> <<"C", "d">>,
       description |-> <<>>, embedding |-> None, embedding_text |-> None]>>

InitEmbedding ==
    /\ pc = "load_records"
    /\ BuildIdle
    /\ args = <<>> /\ result = <<>>
    /\ EmbeddingIdle
    /\ books_file = NoFile /\ cache_file = NoFile /\ tmp_file = NoFile
    /\ queue_file = NoFile /\ cache = <<>> /\ queue_rows = <<>>
    /\ results = <<>> /\ queue_i = 0 /\ lookups = <<>>
    /\ out_file \in {NoFile} \cup {File(f) : f \in EmbeddingInputFiles}
    /\ exclusions_file = NoFile /\ galaxy_file = NoFile /\ analytics_file = NoFile
    /\ exclusions = <<>> /\ books = <<>> /\ excluded_books = <<>>
    /\ filtered_books = <<>> /\ exclusion_reasons = <<>>
    /\ run_log = <<>>
    /\ library_file \in {NoFile, File(PreviousLibrary)}

others_but_embedding ==
    <<build_vars, books_file, cache_file, tmp_file, queue_file, out_file, cache,
      queue_rows, results, queue_i, lookups, exclusions_file, galaxy_file,
      analytics_file, exclusions, books, excluded_books, filtered_books,
      exclusion_reasons, run_log>>

\* a row of INPUT_FILE as pd.read_csv hands it over
ReadRecord(r) ==
    [c \in DOMAIN r |-> IF c = "book_key" THEN r[c] ELSE read_csv_cell(r[c])]

\* [1/4] pd.read_csv(INPUT_FILE); it raises when the file does not exist
LoadRecords ==
    /\ pc = "load_records"
    /\ IF out_file.exists
       THEN /\ df_records' = [k \in 1..Len(out_file.rows) |-> ReadRecord(out_file.rows[k])]
            /\ pc' = "prepare_output"
       ELSE /\ pc' = "raised"
            /\ UNCHANGED df_records
    /\ UNCHANGED <<output_data, library_file, others_but_embedding>>

\* the column the texts to embed are taken from
embedding_col(records) ==
    IF records # <<>> /\ "description_for_embedding" \notin DOMAIN records[1]
    THEN "description_clean"
    ELSE "description_for_embedding"

\* the mask of df_with_desc: the text is there and has more than
\* MIN_EMBEDDING_TEXT_LEN characters
with_desc(row, col) == row[col] # None /\ Len(row[col]) > MIN_EMBEDDING_TEXT_LEN

\* model.encode: the vector of a text
encode(text) == <<"vector of">> \o text

\* book_data of a row of df_with_desc
BookDataEmbedded(row, col) ==
    [id |-> row.book_key, title |-> row.title, author |-> row.author,
     description |-> IF row.description_clean # None THEN row.description_clean
                     ELSE <<>>,
     embedding |-> encode(row[col]),
     embedding_text |-> row[col]]

\* book_data of a row of df_no_desc
BookDataPlain(row) ==
    [id |-> row.book_key, title |-> row.title, author |-> row.author,
     description |-> <<>>, embedding |-> None, embedding_text |-> None]

\* the filter, the encoding and the two loops that build output_data: the rows
\* with a text to embed first, then the others
PrepareOutput ==
    /\ pc = "prepare_output"
    /\ LET col == embedding_col(df_records)
           df_with_desc == SelectSeq(df_records, LAMBDA r : with_desc(r, col))
           df_no_desc == SelectSeq(df_records, LAMBDA r : ~with_desc(r, col))
       IN  output_data' =
              [k \in 1..Len(df_with_desc) |-> BookDataEmbedded(df_with_desc[k], col)]
              \o [k \in 1..Len(df_no_desc) |-> BookDataPlain(df_no_desc[k])]
    /\ pc' = "dump_open"
    /\ UNCHANGED <<df_records, library_file, others_but_embedding>>

\* open(OUTPUT_FILE, 'w') creates or truncates the library file
DumpOpen ==
    /\ pc = "dump_open"
    /\ library_file' = PartialFile
    /\ pc' = "dump_write"
    /\ UNCHANGED <<embedding_vars, others_but_embedding>>

\* json.dump and the close of the library file
DumpWrite ==
    /\ pc = "dump_write"
    /\ library_file' = File(output_data)
    /\ pc' = "embedded"
    /\ UNCHANGED <<embedding_vars, others_but_embedding>>

\* the stage is interrupted before it opens its output or while it writes it
Interrupt ==
    /\ pc \in {"dump_open", "dump_write"}
    /\ pc' = "interrupted"
    /\ UNCHANGED <<embedding_vars, library_file, others_but_embedding>>

run_pipeline ==
    \/ LoadRecords
    \/ PrepareOutput
    \/ DumpOpen
    \/ DumpWrite
    \/ Interrupt

SpecEmbedding == InitEmbedding /\ [][run_pipeline]_vars

\* C21: no record with a description below the minimum length (an empty one
\* included) receives an embedding: every record of the output that has an
\* embedding has a description of more than MIN_EMBEDDING_TEXT_LEN characters.
C21_ShortDescriptionNeverEmbedded ==
    \A k \in 1..Len(output_data) :
        output_data[k].embedding # None
            => Len(output_data[k].description) > MIN_EMBEDDING_TEXT_LEN

(***************************************************************************)
(* Properties of the stages as programs: aborts, exit status, output files *)
(***************************************************************************)
\* C22: a stage that aborts on an absent input file has written or
\* overwritten none of its output files: the base build that returned for a
\* missing source CSV left no book records file and no queue file, and
\* run_exclusions that raised left the library file, if there is one, with the
\* records it loaded.
C22_AbortWritesNothing ==
    /\ pc = "returned" => ~output_file.exists /\ ~queue_file.exists
    /\ pc = "raised" => (library_file.exists => library_file.rows = books)

\* C23: when GOODREADS_FILE or KAGGLE_FILE is absent, the process of the base
\* build ends with a non-zero exit status.
C23_MissingSourceExitsNonZero ==
    (pc = "exited" /\ ~(goodreads_file.exists /\ kaggle_file.exists))
        => exit_status # <<0>>

\* C24: the library file is never left partially written: after an
\* interruption of the embedding stage, at whatever point of producing its
\* output, the file at OUTPUT_FILE is absent or holds a complete library, the
\* previous one or the new one.
C24_OutputNeverPartial ==
    pc = "interrupted" =>
        \/ library_file = NoFile
        \/ library_file = File(PreviousLibrary)
        \/ library_file = File(output_data)

\* C25: the enrichment changes no identity and no membership: whatever the
\* queue, the cache and the lookups gave (no result at all included), a run
\* that went through its queue has written an output that holds the records
\* of the books file, one for one, with their book_key.
C25_SameRecordsOut ==
    pc \in {"enriched", "raised"} =>
        /\ out_file.exists
        /\ Len(out_file.rows) = Len(books_file.rows)
        /\ \A k \in 1..Len(books_file.rows) :
              out_file.rows[k].book_key = books_file.rows[k].book_key

\* the two conditions that put a record of the output on the enrichment queue
ShortDescription(r) == Len(r.description_clean) < MIN_DESCRIPTION_LENGTH
NoCover(r) == r.cover_image_url \in {None, <<>>}

\* the row of the queue file with the key of the record r of the output
QueuedAs(r) == {q \in Range(queue_file.rows) : q.book_key = r.book_key}

\* C26: the queue file holds exactly the records of the output whose cleaned
\* description has fewer than 80 characters or whose cover URL is null or
\* empty, once each and in the order of the output, and the needs_description
\* and needs_cover of a queued record are these two conditions.
C26_QueueIsRecordsInNeed ==
    queue_file.exists =>
        LET need == SelectSeq(Output, LAMBDA r : ShortDescription(r) \/ NoCover(r))
        IN  /\ MIN_DESCRIPTION_LENGTH = 80
            /\ Len(queue_file.rows) = Len(need)
            /\ \A k \in 1..Len(need) :
                  /\ queue_file.rows[k].book_key = need[k].book_key
                  /\ queue_file.rows[k].needs_description = ShortDescription(need[k])
                  /\ queue_file.rows[k].needs_cover = NoCover(need[k])
            /\ \A r \in Range(Output) :
                  (~ShortDescription(r) /\ ~NoCover(r)) => QueuedAs(r) = {}

\* C26 witness: the output holds a record that is not queued, a record with a
\* null cover that is queued for its cover alone, and a record queued for its
\* description alone
C26_Witness ==
    /\ pc = "done"
    /\ \E r \in Range(Output) : QueuedAs(r) = {}
    /\ \E r \in Range(Output) :
          /\ r.cover_image_url = None
          /\ \E q \in QueuedAs(r) : q.needs_cover /\ ~q.needs_description
    /\ \E r \in Range(Output) :
          \E q \in QueuedAs(r) : q.needs_description /\ ~q.needs_cover

\* the primary record at position i of gr_records is in the combined frame
Survives(i) == \E r \in Range(all_records) : r.is_read /\ r.index = i

DedupPassed == pc \in {"dedup_title_author", "save", "generate_queue", "done"}

\* C27 as stated: neither deduplication pass removes a primary record, also
\* when two of them denote the same book: every primary record is in the
\* output.
C27_PrimaryAlwaysSurvives ==
    pc = "done" =>
        \A i \in 1..Len(gr_records) : \E r \in Range(Output) : r.is_read /\ r.index = i

\* C27 amended: the second pass removes no primary record, and the first pass
\* removes a primary record exactly when an earlier primary record has its
\* book_key (the same normalized ISBN13): after the first pass and after the
\* second, the primary records in the frame are those whose book_key no
\* earlier primary record carries, and so are those of the output.
C27_PrimarySurvivesUnlessSameKey ==
    /\ DedupPassed =>
          \A i \in 1..Len(gr_records) :
              Survives(i) <=>
                  \A j \in 1..(i-1) : gr_records[j].book_key # gr_records[i].book_key
    /\ pc = "done" => Output = all_records

\* C27 witness: two primary records with one dedup-normalized (title, author)
\* pair and two book_keys went through both passes and are both in the output
C27_Witness ==
    /\ pc = "done"
    /\ \E i, j \in 1..Len(gr_records) :
          /\ i < j
          /\ DedupPair(gr_records[i]) = DedupPair(gr_records[j])
          /\ gr_records[i].book_key # gr_records[j].book_key
          /\ \E r, u \in Range(Output) : r.index = i /\ u.index = j

\* a run of the exclusion stage after the first
LaterRun == run_log # <<>>

Ids(rows) == {rows[k].id : k \in 1..Len(rows)}

\* C28: a second run of the exclusion stage, with the rule config unchanged,
\* over the files the first run wrote excludes no record and changes neither
\* the records of the library file nor the points of the coordinates file,
\* and after a run every point of the coordinates file has the id of a record
\* of the library file.
C28_SecondRunChangesNothing ==
    /\ [](LaterRun /\ pc \in {"save_library", "filter_galaxy", "recalculate",
                              "exclusions_applied"}
             => excluded_books = <<>> /\ filtered_books = books)
    /\ [](ExclusionsApplied => Ids(galaxy_file.rows) \subseteq Ids(library_file.rows))
    /\ [][LaterRun => /\ library_file' = library_file
                      /\ galaxy_file' = galaxy_file
                      /\ exclusions_file' = exclusions_file]_vars

\* C28 witness: the first run excluded a record and kept another, and the
\* second run has ended
C28_Witness ==
    /\ ExclusionsApplied
    /\ Len(run_log) = 1
    /\ run_log[1] > 0
    /\ library_file.rows # <<>>
    /\ Ids(galaxy_file.rows) = Ids(library_file.rows)

\* the entries of the cache file
Persisted == IF cache_file.exists THEN cache_file.rows ELSE <<>>

\* the ISBNs whose lookup succeeded in this run
SucceededIsbns == {lookups[k].isbn : k \in {j \in 1..Len(lookups) : ~lookups[j].raised}}

\* C29: whenever the loop is between two rows, the cache file holds the
\* entries load_cache found (none, or those of the earlier run) and one entry,
\* a result of enrich_one, for each ISBN whose lookup succeeded in this run,
\* and nothing else; no entry is an error payload; and a row whose ISBN has
\* no such entry was looked up, also when an earlier lookup of that ISBN failed.
C29_CacheIsLoadedPlusSucceeded ==
    pc = "loop" =>
        /\ Persisted = cache
        /\ \E loaded \in {<<>>, OldCache} :
              /\ DOMAIN loaded \cap SucceededIsbns = {}
              /\ DOMAIN Persisted = DOMAIN loaded \cup SucceededIsbns
              /\ \A x \in DOMAIN loaded : Persisted[x] = loaded[x]
              /\ \A r \in 1..(queue_i - 1) :
                    RowIsbn(r) # <<>> =>
                        \/ \E k \in 1..Len(lookups) : lookups[k].row = r
                        \/ RowIsbn(r) \in DOMAIN loaded
                        \/ \E k \in 1..Len(lookups) :
                              /\ lookups[k].row < r
                              /\ ~lookups[k].raised
                              /\ lookups[k].isbn = RowIsbn(r)
        /\ \A x \in DOMAIN Persisted : Persisted[x].error = "" /\ Persisted[x].isbn = x
        /\ \A k \in FailedLookups :
              lookups[k].isbn \in DOMAIN Persisted
                  => \E j \in (k+1)..Len(lookups) :
                        ~lookups[j].raised /\ lookups[j].isbn = lookups[k].isbn

\* C29 witness: the cache of an earlier run was loaded, the lookup of the
\* first row failed, the second row has the same ISBN and was looked up
\* again, with success, and the cache file holds the loaded entry and the new
\* one
C29_Witness ==
    /\ pc = "loop"
    /\ queue_i = 3
    /\ Len(lookups) = 2
    /\ lookups[1].raised /\ ~lookups[2].raised
    /\ lookups[1].isbn = lookups[2].isbn
    /\ DOMAIN Persisted = DOMAIN OldCache \cup {lookups[2].isbn}
    /\ Cardinality(DOMAIN Persisted) = 2

\* the text columns of a book record that the merge-back does not assign
KEPT_COLUMNS == {"title", "description_clean", "description_for_embedding"}

\* C30: the file enrichment writes has the records of the books file, in
\* their order, and in each of them book_key, title, description_clean and
\* description_for_embedding read (by pd.read_csv) as they read before
\* enrichment, whether or not description_raw was filled in
C30_MergeBackKeepsOtherColumns ==
    pc = "enriched" =>
        /\ Len(out_file.rows) = Len(books_file.rows)
        /\ \A k \in 1..Len(books_file.rows) :
              /\ AfterMerge(k).book_key = BeforeMerge(k).book_key
              /\ \A c \in KEPT_COLUMNS :
                    read_csv_cell(AfterMerge(k)[c]) = read_csv_cell(BeforeMerge(k)[c])

\* C30 witness: enrichment filled the description_raw of one record, whose
\* description_clean is not any more the cleaned description_raw, and wrote a
\* record whose description_clean was a missing-value text in the books file
C30_Witness ==
    /\ pc = "enriched"
    /\ \E k \in 1..Len(books_file.rows) :
          /\ AfterMerge(k).description_raw # BeforeMerge(k).description_raw
          /\ Len(AfterMerge(k).description_raw) >= MIN_DESCRIPTION_LEN
          /\ read_csv_cell(AfterMerge(k).description_clean)
                = read_csv_cell(BeforeMerge(k).description_clean)
          /\ AfterMerge(k).description_clean # clean_description(AfterMerge(k).description_raw)
          /\ AfterMerge(k).description_for_embedding
                = BeforeMerge(k).description_for_embedding
    /\ \E j \in 1..Len(books_file.rows) :
          /\ BeforeMerge(j).description_clean \in NA_VALUES \ {<<>>}
          /\ AfterMerge(j).description_clean = <<>>

====
